---- MODULE Spec2Model ----
(***************************************************************************)
(* Background job orchestration of the kfilter backend.                    *)
(*                                                                         *)
(* Three job families are modelled:                                        *)
(*   - the analysis family: create_analysis_task / run_analysis_wrapper /  *)
(*     run_analysis_task and its stages, stop_analysis;                    *)
(*   - the extended-analysis family: run_extended_analysis_stream with its *)
(*     worker thread, stop_extended_analysis;                              *)
(*   - the concept-collection family: create_concept_collection_task /     *)
(*     collect_concepts_wrapper / collect_concepts_task.                   *)
(*                                                                         *)
(* Each executor thread is a small program counter machine.  One action is *)
(* one stretch of code between two points at which another thread (a       *)
(* request handler, another executor) can observe or change shared state:  *)
(* every update_task_progress call and every external call starts a new    *)
(* stretch.  Request handlers that touch only dictionaries are one action. *)
(*                                                                         *)
(* Progress values are kept exact: a progress p of the program is the      *)
(* integer p * 100 * K, K being a common multiple of every batch size, so  *)
(* that 0.25 + 0.1 * i / N is an integer for every N in 1..MaxStocks, and  *)
(* 0.1 + 0.8 * i / N for every N in 1..MaxBoards.                          *)
(***************************************************************************)
EXTENDS Integers, Sequences, FiniteSets, TLC

\* ------------------------------------------------------------------ bounds
\* Number of analysis jobs that can be submitted in one run.
MaxTasks == 1
\* Largest number of stock codes a job selects (size of the batch stage).
MaxStocks == 2
\* Number of streaming submissions of the extended analysis in one run.
MaxReqs == 2
\* Largest number of concept boards the concept page lists.
MaxBoards == 3
\* Largest number of progress events one event stream is followed for.
MaxTicks == 2

TaskIds == 1..MaxTasks
\* The ids of the analysis jobs of a run in which jobs run side by side:
\* uuid4 gives the next submission one more id.
PeerId == MaxTasks + 1
JobIds == TaskIds \cup {PeerId}
ReqIds == 1..MaxReqs
\* Extended-analysis job ids: each submission draws its own uuid4.
XIds == 1..MaxReqs
\* Concept-collection job ids.
ConceptIds == 1..MaxTasks

None == "None"

RECURSIVE Factorial(_)
Factorial(n) == IF n <= 1 THEN 1 ELSE n * Factorial(n - 1)

\* Denominator of the exact progress representation.
K == Factorial(MaxStocks) * Factorial(MaxBoards)
\* The progress value pct / 100 of the program.
P(pct) == pct * K

\* ------------------------------------------------------------------ state
VARIABLES
    \* analysis family (src/backend/utils.py, data_management/services.py)
    TASKS,                  \* task_id -> Task record
    LAST_COMPLETED_TASK,    \* {task_id} of the last completed Task, or {}
    TASK_THREADS,           \* keys of the thread registry
    TASK_STOP_EVENTS,       \* keys of the stop-event registry
    ANALYSIS_RESULTS_CACHE, \* task_id -> cached full_result
    ranking_json,           \* {content} of <backend>/ranking.json, or {}
    stop_event,             \* task_id -> is_set() of the job's threading.Event
    pc,                     \* task_id -> position of the job's executor thread
    loc,                    \* task_id -> locals of run_analysis_task
    stage_invoked,          \* task_id -> an external collaborator of a stage was invoked
    resp,                   \* answer of the request handled by the last step
    \* extended-analysis family (src/backend/api.py)
    EXT_TASKS,                      \* task_id -> tracked extended-analysis task
    EXTENDED_ANALYSIS_THREADS,      \* keys of the thread registry
    EXTENDED_ANALYSIS_STOP_EVENTS,  \* keys of the stop-event registry
    x_stop_event,           \* task_id -> is_set() of the job's threading.Event
    x_pc,                   \* task_id -> position of the worker thread
    x_res,                  \* task_id -> outcome of the worker's analysis call
    result_holder,          \* task_id -> the closure's result_holder dict
    req,                    \* request id -> state of one streaming submission
                            \*   and the events its stream has emitted
    \* serving of results (src/backend/api.py, data_management/services.py)
    EXTENDED_ANALYSIS_CACHE,        \* {cached extended-analysis result}, or {}
    cwd,                    \* working directory of the server process
    standalone_calls,       \* callers inside run_extended_analysis() right now
    \* concept-collection family (src/backend/utils.py, concept_service.py)
    CONCEPT_TASKS,                  \* task_id -> ConceptTask record
    LAST_COMPLETED_CONCEPT_TASK,    \* {task_id} of the last completed one, or {}
    c_pc,                   \* task_id -> position of the job's thread
    c_loc,                  \* task_id -> locals of collect_concepts_task
    concept_info            \* board -> job whose save of its rows was committed last, 0: no rows

avars == <<TASKS, LAST_COMPLETED_TASK, TASK_THREADS, TASK_STOP_EVENTS,
           ANALYSIS_RESULTS_CACHE, ranking_json, stop_event, pc, loc, stage_invoked>>
xvars == <<EXT_TASKS, EXTENDED_ANALYSIS_THREADS, EXTENDED_ANALYSIS_STOP_EVENTS,
           x_stop_event, x_pc, x_res, result_holder, req>>
rvars == <<EXTENDED_ANALYSIS_CACHE, cwd, standalone_calls>>
cvars == <<CONCEPT_TASKS, LAST_COMPLETED_CONCEPT_TASK, c_pc, c_loc, concept_info>>
vars == <<avars, resp, xvars, rvars, cvars>>

\* TaskStatus (src/backend/models.py)
PENDING == "pending"
RUNNING == "running"
COMPLETED == "completed"
FAILED == "failed"
CANCELLED == "cancelled"
Terminal == {COMPLETED, FAILED, CANCELLED}

\* Locals of run_analysis_task and of the stage it is in; they are gone
\* when the function is left.  Three fields record control flow rather than
\* Python locals: token_at_start is the state of the stop event when the
\* thread ran its first statement, token_at_batch its state when the
\* history batch began, and hist_return is the return statement
\* by which fetch_and_save_historical_data was left ("stopped": line 210;
\* "no_success": line 245; line 255 after the loop with or without failed
\* items: "some_failed", "all_saved"; line 255 without the loop: "skipped").
NoLocals == [collect |-> TRUE, upsert |-> FALSE, n |-> 0, i |-> 0,
             successful_count |-> 0, failed_count |-> 0,
             has_error |-> FALSE, count |-> 0, error_text |-> None,
             token_at_start |-> FALSE, token_at_batch |-> FALSE,
             hist_return |-> None]

NoResp == [op |-> "none", id |-> 0, code |-> "none"]

\* ------------------------------------------------------- task utilities
\* An update_task_progress that stores a record for an id it does not know.
update_task_progress_Upserts(T, t, p, m) ==
    IF t \in DOMAIN T
    THEN [T EXCEPT ![t].progress = p, ![t].message = m]
    ELSE T @@ (t :> [task_id |-> t, status |-> RUNNING, progress |-> p,
                     message |-> m, completed_at |-> FALSE, result |-> {},
                     error |-> None])

\* update_task_progress: a no-op for an id that is not in TASKS.
update_task_progress(T, t, p, m) ==
    IF t \in DOMAIN T
    THEN [T EXCEPT ![t].progress = p, ![t].message = m]
    ELSE T

\* A handle_task_error that marks every stored task FAILED.
handle_task_error_FailsEveryTask(T, t, e) ==
    [u \in DOMAIN T |->
        [T[u] EXCEPT !.status = FAILED, !.error = e,
                     !.message = "analysis failed: " \o e,
                     !.completed_at = TRUE]]

\* handle_task_error: TASKS[task_id] is marked FAILED with the error text.
handle_task_error(T, t, e) ==
    [T EXCEPT ![t].status = FAILED, ![t].error = e,
              ![t].message = "analysis failed: " \o e,
              ![t].completed_at = TRUE]

\* The Task that create_analysis_task builds.  An Optional value that is a
\* dict or an object (Task.result, the last completed task, the content of
\* ranking.json) is the set of its at most one value: {} is None.
NewTask(t) ==
    [task_id |-> t, status |-> PENDING, progress |-> 0,
     message |-> "created, waiting to start", completed_at |-> FALSE,
     result |-> {}, error |-> None]

\* ------------------------------------------------------------- submission
\* run_analysis: the RunResponse carries the new id and the status PENDING.
RunResponse(t) == [op |-> "run_analysis", id |-> t, code |-> PENDING]

\* A create_analysis_task that starts the thread without having registered
\* the stop event.
create_analysis_task_StartsUnregistered(t, collect_latest_data) ==
    /\ t \notin DOMAIN TASKS
    /\ pc[t] = "idle"
    /\ \A u \in JobIds : u < t => pc[u] # "idle"
    /\ TASKS' = TASKS @@ (t :> NewTask(t))
    /\ stop_event' = [stop_event EXCEPT ![t] = FALSE]
    /\ TASK_THREADS' = TASK_THREADS \cup {t}
    /\ pc' = [pc EXCEPT ![t] = "start"]
    /\ loc' = [loc EXCEPT ![t] = [NoLocals EXCEPT !.collect = collect_latest_data]]
    /\ resp' = RunResponse(t)
    /\ UNCHANGED <<LAST_COMPLETED_TASK, TASK_STOP_EVENTS, ANALYSIS_RESULTS_CACHE,
                   ranking_json, stage_invoked, xvars, rvars, cvars>>

\* create_analysis_task: the record, the stop event and the thread are
\* registered, then the thread is started.  uuid4 yields an unused id.
create_analysis_task(t, collect_latest_data) ==
    /\ t \notin DOMAIN TASKS
    /\ pc[t] = "idle"
    /\ \A u \in JobIds : u < t => pc[u] # "idle"
    /\ TASKS' = TASKS @@ (t :> NewTask(t))
    /\ stop_event' = [stop_event EXCEPT ![t] = FALSE]
    /\ TASK_STOP_EVENTS' = TASK_STOP_EVENTS \cup {t}
    /\ TASK_THREADS' = TASK_THREADS \cup {t}
    /\ pc' = [pc EXCEPT ![t] = "start"]
    /\ loc' = [loc EXCEPT ![t] = [NoLocals EXCEPT !.collect = collect_latest_data]]
    /\ resp' = RunResponse(t)
    /\ UNCHANGED <<LAST_COMPLETED_TASK, ANALYSIS_RESULTS_CACHE, ranking_json,
                   stage_invoked, xvars, rvars, cvars>>

\* The error answers of the two stop handlers (HTTPException 404 / 400).
HttpErrors == {"http_404", "http_400"}

\* A stop_analysis without the guard of lines 122-123: the record is
\* rewritten whether or not a stop event is registered.
stop_analysis_Unguarded(t) ==
    /\ UNCHANGED <<LAST_COMPLETED_TASK, TASK_THREADS, TASK_STOP_EVENTS,
                   ANALYSIS_RESULTS_CACHE, ranking_json, pc, loc, stage_invoked, xvars, rvars, cvars>>
    /\ IF t \notin DOMAIN TASKS
       THEN /\ resp' = [op |-> "stop_analysis", id |-> t, code |-> "http_404"]
            /\ UNCHANGED <<TASKS, stop_event>>
       ELSE /\ stop_event' = [stop_event EXCEPT ![t] = TRUE]
            /\ TASKS' = [TASKS EXCEPT ![t].status = RUNNING,
                                      ![t].message = "stop requested, cleaning up"]
            /\ resp' = [op |-> "stop_analysis", id |-> t, code |-> "ok"]

\* A stop_analysis that takes the stop event out of the registry once it
\* has set it.
stop_analysis_Unregisters(t) ==
    /\ UNCHANGED <<LAST_COMPLETED_TASK, TASK_THREADS,
                   ANALYSIS_RESULTS_CACHE, ranking_json, pc, loc, stage_invoked, xvars, rvars, cvars>>
    /\ IF t \notin DOMAIN TASKS
       THEN /\ resp' = [op |-> "stop_analysis", id |-> t, code |-> "http_404"]
            /\ UNCHANGED <<TASKS, stop_event, TASK_STOP_EVENTS>>
       ELSE IF t \notin TASK_STOP_EVENTS
       THEN /\ resp' = [op |-> "stop_analysis", id |-> t, code |-> "http_400"]
            /\ UNCHANGED <<TASKS, stop_event, TASK_STOP_EVENTS>>
       ELSE /\ stop_event' = [stop_event EXCEPT ![t] = TRUE]
            /\ TASK_STOP_EVENTS' = TASK_STOP_EVENTS \ {t}
            /\ TASKS' = [TASKS EXCEPT ![t].status = RUNNING,
                                      ![t].message = "stop requested, cleaning up"]
            /\ resp' = [op |-> "stop_analysis", id |-> t, code |-> "ok"]

\* stop_analysis: 404 for an unknown task, 400 when no stop event is
\* registered; otherwise the event is set and the record is rewritten.
stop_analysis(t) ==
    /\ UNCHANGED <<LAST_COMPLETED_TASK, TASK_THREADS, TASK_STOP_EVENTS,
                   ANALYSIS_RESULTS_CACHE, ranking_json, pc, loc, stage_invoked, xvars, rvars, cvars>>
    /\ IF t \notin DOMAIN TASKS
       THEN /\ resp' = [op |-> "stop_analysis", id |-> t, code |-> "http_404"]
            /\ UNCHANGED <<TASKS, stop_event>>
       ELSE IF t \notin TASK_STOP_EVENTS
       THEN /\ resp' = [op |-> "stop_analysis", id |-> t, code |-> "http_400"]
            /\ UNCHANGED <<TASKS, stop_event>>
       ELSE /\ stop_event' = [stop_event EXCEPT ![t] = TRUE]
            /\ TASKS' = [TASKS EXCEPT ![t].status = RUNNING,
                                      ![t].message = "stop requested, cleaning up"]
            /\ resp' = [op |-> "stop_analysis", id |-> t, code |-> "ok"]

\* ------------------------------------------------ executor: run_analysis_task
\* What an executor step leaves alone.
ExecFrame ==
    /\ resp' = NoResp
    /\ UNCHANGED <<LAST_COMPLETED_TASK, TASK_THREADS, TASK_STOP_EVENTS,
                   ANALYSIS_RESULTS_CACHE, ranking_json, stop_event, xvars, rvars, cvars>>

Goto(t, label) == pc' = [pc EXCEPT ![t] = label]
Called(t, name) == stage_invoked' = [stage_invoked EXCEPT ![t] = TRUE]
\* An exception leaves run_analysis_task; run_analysis_wrapper catches it.
Raise(t, e) ==
    /\ pc' = [pc EXCEPT ![t] = "except"]
    /\ loc' = [loc EXCEPT ![t] = [NoLocals EXCEPT !.error_text = e]]

Outcomes == {"ok", "raise"}

\* get_latest_trade_date_and_setup, lines 35-41: RUNNING, progress 0.0.
Setup_Start(t) ==
    /\ pc[t] = "start"
    /\ IF t \in DOMAIN TASKS
       THEN /\ TASKS' = update_task_progress(
                            [TASKS EXCEPT ![t].status = RUNNING], t, P(0),
                            "analysis started")
            /\ Goto(t, "setup_fetch")
            /\ loc' = [loc EXCEPT ![t].token_at_start = stop_event[t]]
       ELSE /\ loc' = [loc EXCEPT ![t].has_error = TRUE,
                                  ![t].token_at_start = stop_event[t]]
            /\ Goto(t, "chk_setup")
            /\ UNCHANGED TASKS
    /\ UNCHANGED stage_invoked
    /\ ExecFrame

\* A setup step whose failure marks the task FAILED but is not reported to
\* run_analysis_task.
Setup_Fetch_HidesFailure(t) ==
    /\ pc[t] = "setup_fetch"
    /\ Called(t, "get_latest_trade_date_and_limit_map")
    /\ \E o \in Outcomes :
         /\ TASKS' = IF o = "ok"
                     THEN update_task_progress(TASKS, t, P(2), "fetch latest trade date")
                     ELSE [update_task_progress(TASKS, t, P(2), "fetch latest trade date")
                             EXCEPT ![t].status = FAILED,
                                    ![t].message = "cannot get latest trade date",
                                    ![t].completed_at = TRUE]
         /\ loc' = [loc EXCEPT ![t].has_error = FALSE]
    /\ Goto(t, "chk_setup")
    /\ ExecFrame

\* get_latest_trade_date_and_setup, lines 46-60: progress 0.02, then the
\* trade-date fetch; a failure marks the task FAILED (message, completed_at)
\* and returns has_error = True.
Setup_Fetch(t) ==
    /\ pc[t] = "setup_fetch"
    /\ Called(t, "get_latest_trade_date_and_limit_map")
    /\ \E o \in Outcomes :
         IF o = "ok"
         THEN /\ TASKS' = update_task_progress(TASKS, t, P(2), "fetch latest trade date")
              /\ loc' = [loc EXCEPT ![t].has_error = FALSE]
         ELSE /\ TASKS' = [update_task_progress(TASKS, t, P(2), "fetch latest trade date")
                             EXCEPT ![t].status = FAILED,
                                    ![t].message = "cannot get latest trade date",
                                    ![t].completed_at = TRUE]
              /\ loc' = [loc EXCEPT ![t].has_error = TRUE]
    /\ Goto(t, "chk_setup")
    /\ ExecFrame

\* A check_cancel that also resets progress.
check_cancel_ResetsProgress(T, t) ==
    IF t \in DOMAIN T
    THEN [T EXCEPT ![t].status = CANCELLED, ![t].message = "task cancelled",
                   ![t].completed_at = TRUE, ![t].progress = P(0)]
    ELSE T

\* A check_cancel that leaves the message alone.
check_cancel_KeepsMessage(T, t) ==
    IF t \in DOMAIN T
    THEN [T EXCEPT ![t].status = CANCELLED, ![t].completed_at = TRUE]
    ELSE T

\* check_cancel (closure of run_analysis_task): when the stop event is set
\* the task becomes CANCELLED; progress is not touched.
check_cancel(T, t) ==
    IF t \in DOMAIN T
    THEN [T EXCEPT ![t].status = CANCELLED, ![t].message = "task cancelled",
                   ![t].completed_at = TRUE]
    ELSE T

\* The return points of run_analysis_task that read has_error before
\* check_cancel ("if has_error or check_cancel(): return"); the others call
\* check_cancel alone.
ReadsHasError ==
    {"chk_setup", "chk_spot", "chk_db", "chk_hist", "chk_backfill", "chk_weekly"}

CheckPoints ==
    ReadsHasError \cup {"chk_upsert", "chk_40", "chk_factors"}

\* The statement that follows a return point that did not return.
AfterCheck(label, l) ==
    CASE label = "chk_setup"    -> IF l.collect THEN "spot_fetch" ELSE "db_select"
      [] label = "chk_spot"     -> "upsert_check"
      [] label = "chk_upsert"   -> "hist"
      [] label = "chk_db"       -> "hist"
      [] label = "chk_hist"     -> "hist_done"
      [] label = "chk_40"       -> IF l.collect THEN "backfill" ELSE "weekly"
      [] label = "chk_backfill" -> "weekly"
      [] label = "chk_weekly"   -> "factors_load"
      [] label = "chk_factors"  -> "complete"

\* The return points without the cancellation check that follows the last
\* stage.
CheckPoint_SkipsFinalCheck(t) ==
    /\ pc[t] \in CheckPoints
    /\ IF pc[t] \in ReadsHasError /\ loc[t].has_error
       THEN /\ Goto(t, "finally")
            /\ loc' = [loc EXCEPT ![t] = NoLocals]
            /\ UNCHANGED TASKS
       ELSE IF stop_event[t] /\ pc[t] # "chk_factors"
       THEN /\ TASKS' = check_cancel(TASKS, t)
            /\ Goto(t, "finally")
            /\ loc' = [loc EXCEPT ![t] = NoLocals]
       ELSE /\ Goto(t, AfterCheck(pc[t], loc[t]))
            /\ UNCHANGED <<TASKS, loc>>
    /\ UNCHANGED stage_invoked
    /\ ExecFrame

\* One return point: has_error short-circuits check_cancel.
CheckPoint(t) ==
    /\ pc[t] \in CheckPoints
    /\ IF pc[t] \in ReadsHasError /\ loc[t].has_error
       THEN /\ Goto(t, "finally")
            /\ loc' = [loc EXCEPT ![t] = NoLocals]
            /\ UNCHANGED TASKS
       ELSE IF stop_event[t]
       THEN /\ TASKS' = check_cancel(TASKS, t)
            /\ Goto(t, "finally")
            /\ loc' = [loc EXCEPT ![t] = NoLocals]
       ELSE /\ Goto(t, AfterCheck(pc[t], loc[t]))
            /\ UNCHANGED <<TASKS, loc>>
    /\ UNCHANGED stage_invoked
    /\ ExecFrame

\* collect_spot_data_and_select_stocks, lines 65-66: progress 0.05, then
\* fetch_hot_spot.
Spot_Fetch(t) ==
    /\ pc[t] = "spot_fetch"
    /\ TASKS' = update_task_progress(TASKS, t, P(5), "fetch spot data")
    /\ Called(t, "fetch_hot_spot")
    /\ \E o \in Outcomes :
         IF o = "ok"
         THEN Goto(t, "spot_save") /\ UNCHANGED loc
         ELSE Raise(t, "fetch_hot_spot failed")
    /\ ExecFrame

\* collect_spot_data_and_select_stocks, lines 69-74, and run_analysis_task,
\* lines 456-472: progress 0.1, the basic info is saved, the dragon-tiger
\* codes are merged in; stock_codes ends with n distinct codes.
Spot_Save(t) ==
    /\ pc[t] = "spot_save"
    /\ TASKS' = update_task_progress(TASKS, t, P(10), "save stock basic info")
    /\ Called(t, "save_stock_basic_info")
    /\ \E o \in Outcomes, n \in 0..MaxStocks :
         IF o = "ok"
         THEN /\ loc' = [loc EXCEPT ![t].n = n, ![t].has_error = FALSE]
              /\ Goto(t, "chk_spot")
         ELSE /\ n = 0
              /\ Raise(t, "fetch_dragon_tiger_data failed")
    /\ ExecFrame

\* The decision of check_and_upsert_spot_data, lines 81-118.  The third
\* query is a single count row, so len(has_all_codes_data) is 1.
should_upsert_spot(latest_data_count, previous_data_count, n) ==
    LET by_dates == IF latest_data_count = 0 THEN FALSE
                    ELSE IF previous_data_count = 0 THEN FALSE
                    ELSE TRUE
        len_has_all_codes_data == 1
    IN  IF len_has_all_codes_data # n THEN FALSE ELSE by_dates

\* check_and_upsert_spot_data, lines 79-118: progress 0.18 and the decision.
Upsert_Check(t) ==
    /\ pc[t] = "upsert_check"
    /\ TASKS' = update_task_progress(TASKS, t, P(18), "check whether to upsert spot data")
    /\ Called(t, "query_daily_market_data")
    /\ \E o \in Outcomes, latest \in 0..1, previous \in 0..1 :
         IF o = "ok"
         THEN /\ loc' = [loc EXCEPT ![t].upsert =
                            should_upsert_spot(latest, previous, loc[t].n)]
              /\ Goto(t, "upsert_apply")
         ELSE /\ latest = 0 /\ previous = 0
              /\ Raise(t, "database query failed")
    /\ ExecFrame

\* check_and_upsert_spot_data, lines 120-131: progress 0.2 on both branches;
\* the spot rows are saved only when the decision is to upsert.
Upsert_Apply(t) ==
    /\ pc[t] = "upsert_apply"
    /\ IF loc[t].upsert
       THEN /\ TASKS' = update_task_progress(TASKS, t, P(20), "save spot data as daily K")
            /\ Called(t, "save_spot_as_daily_data")
       ELSE /\ TASKS' = update_task_progress(TASKS, t, P(20),
                            "skip spot upsert, fetch_history will get the data")
            /\ UNCHANGED stage_invoked
    /\ Goto(t, "chk_upsert")
    /\ UNCHANGED loc
    /\ ExecFrame

\* get_stocks_from_database, lines 137-188: progress 0.15; at least one code
\* is returned, or an exception is raised when no stock has enough history.
Db_Select(t) ==
    /\ pc[t] = "db_select"
    /\ TASKS' = update_task_progress(TASKS, t, P(15), "use historical data (skip spot collection)")
    /\ Called(t, "query_daily_market_data")
    /\ \E o \in Outcomes, n \in 1..MaxStocks :
         IF o = "ok"
         THEN /\ loc' = [loc EXCEPT ![t].n = n, ![t].has_error = FALSE]
              /\ Goto(t, "chk_db")
         ELSE /\ n = 1
              /\ Raise(t, "No stocks found with sufficient historical data")
    /\ ExecFrame

\* ------------------------------------- fetch_and_save_historical_data
\* An item progress that counts the item about to be fetched as done.
ItemProgress_CountsCurrent(i, n) == P(25) + (P(10) * (i + 1)) \div n

\* The progress reported before item i of n, line 213: 0.25 + 0.1 * i / n.
ItemProgress(i, n) == P(25) + (P(10) * i) \div n

\* Lines 193-204: the batch runs when fresh data is collected and the spot
\* rows were not upserted; it starts at progress 0.25.
Hist_Begin(t) ==
    /\ pc[t] = "hist"
    /\ loc[t].collect /\ ~loc[t].upsert
    /\ TASKS' = update_task_progress(TASKS, t, P(25), "fetch history in batches")
    /\ loc' = [loc EXCEPT ![t].i = 0, ![t].successful_count = 0,
                          ![t].failed_count = 0,
                          ![t].token_at_batch = stop_event[t]]
    /\ Goto(t, "hist_loop")
    /\ UNCHANGED stage_invoked
    /\ ExecFrame

\* Lines 246-255: the batch is skipped, progress 0.35 with the reason.
Hist_Skip(t) ==
    /\ pc[t] = "hist"
    /\ ~(loc[t].collect /\ ~loc[t].upsert)
    /\ TASKS' = update_task_progress(TASKS, t, P(35),
                    IF loc[t].collect
                    THEN "skip external API (spot data upserted)"
                    ELSE "use database history (skip external API)")
    /\ loc' = [loc EXCEPT ![t].has_error = FALSE, ![t].hist_return = "skipped"]
    /\ Goto(t, "chk_hist")
    /\ UNCHANGED stage_invoked
    /\ ExecFrame

\* A loop head that does not look at the stop event.
Hist_Next_IgnoresStop(t) ==
    /\ pc[t] = "hist_loop"
    /\ loc[t].i < loc[t].n
    /\ TASKS' = update_task_progress(TASKS, t,
                    ItemProgress(loc[t].i, loc[t].n), "fetch history of item")
    /\ Goto(t, "hist_item")
    /\ UNCHANGED <<loc, stage_invoked>>
    /\ ExecFrame

\* Lines 206-214: the head of one iteration.  A set stop event makes the
\* stage return True, logging successful_count, the number of codes whose
\* rows save_daily_data has committed; otherwise the item's progress is
\* reported.
Hist_Next(t) ==
    /\ pc[t] = "hist_loop"
    /\ loc[t].i < loc[t].n
    /\ IF stop_event[t]
       THEN /\ loc' = [loc EXCEPT ![t].has_error = TRUE,
                                  ![t].hist_return = "stopped",
                                  ![t].i = 0, ![t].failed_count = 0]
            /\ Goto(t, "chk_hist")
            /\ UNCHANGED TASKS
       ELSE /\ TASKS' = update_task_progress(TASKS, t,
                            ItemProgress(loc[t].i, loc[t].n), "fetch history of item")
            /\ Goto(t, "hist_item")
            /\ UNCHANGED loc
    /\ UNCHANGED stage_invoked
    /\ ExecFrame

ItemOutcomes == {"saved", "empty", "raise"}

\* Lines 216-233: fetch_history and save_daily_data for one code.  An empty
\* answer and an exception both count as a failure; the loop continues.
Hist_Item(t) ==
    /\ pc[t] = "hist_item"
    /\ Called(t, "fetch_history")
    /\ \E o \in ItemOutcomes :
         loc' = [loc EXCEPT
                   ![t].successful_count = IF o = "saved" THEN @ + 1 ELSE @,
                   ![t].failed_count = IF o = "saved" THEN @ ELSE @ + 1,
                   ![t].i = @ + 1]
    /\ Goto(t, "hist_loop")
    /\ UNCHANGED TASKS
    /\ ExecFrame

\* Hist_End with the stage failing as soon as one item failed.
Hist_End_AnyFailure(t) ==
    /\ pc[t] = "hist_loop"
    /\ loc[t].i = loc[t].n
    /\ TASKS' = update_task_progress(TASKS, t, P(35), "history fetched")
    /\ loc' = [loc EXCEPT ![t].has_error = (loc[t].failed_count > 0),
                          ![t].hist_return =
                              IF loc[t].successful_count = 0 THEN "no_success"
                              ELSE IF loc[t].failed_count = 0 THEN "all_saved"
                              ELSE "some_failed",
                          ![t].i = 0, ![t].successful_count = 0,
                          ![t].failed_count = 0]
    /\ Goto(t, "chk_hist")
    /\ UNCHANGED stage_invoked
    /\ ExecFrame

\* Lines 235-245: the loop is exhausted: progress 0.35, and the stage
\* returns True when no item succeeded.  The stage's counters end with it.
Hist_End(t) ==
    /\ pc[t] = "hist_loop"
    /\ loc[t].i = loc[t].n
    /\ TASKS' = update_task_progress(TASKS, t, P(35), "history fetched")
    /\ loc' = [loc EXCEPT ![t].has_error = (loc[t].successful_count = 0),
                          ![t].hist_return =
                              IF loc[t].successful_count = 0 THEN "no_success"
                              ELSE IF loc[t].failed_count = 0 THEN "all_saved"
                              ELSE "some_failed",
                          ![t].i = 0, ![t].successful_count = 0,
                          ![t].failed_count = 0]
    /\ Goto(t, "chk_hist")
    /\ UNCHANGED stage_invoked
    /\ ExecFrame

\* run_analysis_task, line 493: progress 0.4.
Hist_Done(t) ==
    /\ pc[t] = "hist_done"
    /\ TASKS' = update_task_progress(TASKS, t, P(40), "history update done")
    /\ Goto(t, "chk_40")
    /\ UNCHANGED <<loc, stage_invoked>>
    /\ ExecFrame

\* backfill_limit_up_data: progress 0.45; an exception of the backfill is
\* swallowed, the stage always returns False.
Backfill(t) ==
    /\ pc[t] = "backfill"
    /\ TASKS' = update_task_progress(TASKS, t, P(45), "backfill limit-up types")
    /\ Called(t, "backfill_limit_up_texts_using_ths")
    /\ loc' = [loc EXCEPT ![t].has_error = FALSE]
    /\ Goto(t, "chk_backfill")
    /\ ExecFrame

\* A weekly stage that looks at collect_latest_data alone.
Weekly_Run_WheneverCollecting(t) ==
    /\ pc[t] = "weekly"
    /\ loc[t].collect
    /\ TASKS' = update_task_progress(TASKS, t, P(50), "compute weekly K")
    /\ Called(t, "calculate_and_save_weekly_data")
    /\ \E o \in Outcomes :
         IF o = "ok"
         THEN Goto(t, "monthly") /\ UNCHANGED loc
         ELSE Raise(t, "calculate_and_save_weekly_data failed")
    /\ ExecFrame

\* ------------------------------------- calculate_weekly_monthly_data
\* This is the last stage to read collect_latest_data and
\* should_upsert_spot; they are dropped when it returns.
\* Lines 272-277: weekly K-lines, progress 0.5.
Weekly_Run(t) ==
    /\ pc[t] = "weekly"
    /\ loc[t].collect /\ ~loc[t].upsert
    /\ TASKS' = update_task_progress(TASKS, t, P(50), "compute weekly K")
    /\ Called(t, "calculate_and_save_weekly_data")
    /\ \E o \in Outcomes :
         IF o = "ok"
         THEN Goto(t, "monthly") /\ UNCHANGED loc
         ELSE Raise(t, "calculate_and_save_weekly_data failed")
    /\ ExecFrame

\* Lines 279-281: monthly K-lines, progress 0.6.
Monthly_Run(t) ==
    /\ pc[t] = "monthly"
    /\ TASKS' = update_task_progress(TASKS, t, P(60), "compute monthly K")
    /\ Called(t, "calculate_and_save_monthly_data")
    /\ \E o \in Outcomes :
         IF o = "ok"
         THEN /\ loc' = [loc EXCEPT ![t].has_error = FALSE,
                                    ![t].collect = NoLocals.collect,
                                    ![t].upsert = NoLocals.upsert]
              /\ Goto(t, "chk_weekly")
         ELSE Raise(t, "calculate_and_save_monthly_data failed")
    /\ ExecFrame

\* Lines 282-291: the computation is skipped, progress 0.6 with the reason.
Weekly_Skip(t) ==
    /\ pc[t] = "weekly"
    /\ ~(loc[t].collect /\ ~loc[t].upsert)
    /\ TASKS' = update_task_progress(TASKS, t, P(60),
                    IF loc[t].collect
                    THEN "skip weekly and monthly K (only spot upserted)"
                    ELSE "use existing data, skip weekly and monthly K")
    /\ loc' = [loc EXCEPT ![t].has_error = FALSE,
                          ![t].collect = NoLocals.collect,
                          ![t].upsert = NoLocals.upsert]
    /\ Goto(t, "chk_weekly")
    /\ UNCHANGED stage_invoked
    /\ ExecFrame

\* ------------------------------------- compute_factors_and_analysis
\* Lines 298-303: progress 0.7, the history is loaded from the database.
Factors_Load(t) ==
    /\ pc[t] = "factors_load"
    /\ TASKS' = update_task_progress(TASKS, t, P(70), "load data for factors")
    /\ Called(t, "load_daily_data_for_analysis")
    /\ \E o \in Outcomes :
         IF o = "ok"
         THEN Goto(t, "factors_85") /\ UNCHANGED loc
         ELSE Raise(t, "load_daily_data_for_analysis failed")
    /\ ExecFrame

\* Lines 341-342: progress 0.85, just before compute_factors is called.
Factors_85(t) ==
    /\ pc[t] = "factors_85"
    /\ TASKS' = update_task_progress(TASKS, t, P(85), "compute factors")
    /\ Goto(t, "cf_begin")
    /\ UNCHANGED <<loc, stage_invoked>>
    /\ ExecFrame

\* compute_factors (data_fetcher.py), lines 273-344: called with the task
\* id, it first reports progress 0.7, then computes the factor frames.
Compute_Factors_Begin(t) ==
    /\ pc[t] = "cf_begin"
    /\ TASKS' = update_task_progress(TASKS, t, P(70), "compute all kinds of factors")
    /\ Called(t, "compute_all_factors")
    /\ \E o \in Outcomes :
         IF o = "ok"
         THEN Goto(t, "cf_end") /\ UNCHANGED loc
         ELSE Raise(t, "compute_factors failed")
    /\ ExecFrame

\* compute_factors (data_fetcher.py), lines 346-350: progress 0.9.
Compute_Factors_End(t) ==
    /\ pc[t] = "cf_end"
    /\ TASKS' = update_task_progress(TASKS, t, P(90), "compute factor scores")
    /\ Goto(t, "factors_clean")
    /\ UNCHANGED <<loc, stage_invoked>>
    /\ ExecFrame

\* Lines 345-356: progress 0.95; data holds count records, at most one per
\* selected code.  stock_codes is not read again.
Factors_Clean(t) ==
    /\ pc[t] = "factors_clean"
    /\ TASKS' = update_task_progress(TASKS, t, P(95), "clean and format data")
    /\ \E c \in 0..loc[t].n :
         /\ loc' = [loc EXCEPT ![t].count = c, ![t].n = NoLocals.n]
         /\ Goto(t, IF c > 0 THEN "factors_sectors" ELSE "chk_factors")
    /\ UNCHANGED stage_invoked
    /\ ExecFrame

\* Lines 359-375: with data, progress 0.97 and the sector names are added
\* (get_stocks_sectors_from_extended_analysis swallows its own errors).
Factors_Sectors(t) ==
    /\ pc[t] = "factors_sectors"
    /\ TASKS' = update_task_progress(TASKS, t, P(97), "add sector info and rank prefix")
    /\ Called(t, "get_stocks_sectors_from_extended_analysis")
    /\ Goto(t, "chk_factors")
    /\ UNCHANGED loc
    /\ ExecFrame

\* ------------------------------------------- complete_analysis_task
\* full_result, lines 397-409.
FullResult(t, c) == [task_id |-> t, count |-> c, from_cache |-> FALSE]

\* Lines 385-413: the task is marked COMPLETED with progress 1.0 and its
\* result, and the full result is put in the memory cache.
Complete_Mark(t) ==
    /\ pc[t] = "complete"
    /\ IF t \in DOMAIN TASKS
       THEN /\ TASKS' = [TASKS EXCEPT ![t].status = COMPLETED,
                                      ![t].progress = P(100),
                                      ![t].message = "analysis completed",
                                      ![t].completed_at = TRUE,
                                      ![t].result = {[count |-> loc[t].count]}]
            /\ ANALYSIS_RESULTS_CACHE' =
                   [u \in DOMAIN ANALYSIS_RESULTS_CACHE \cup {t} |->
                       IF u = t THEN FullResult(t, loc[t].count)
                       ELSE ANALYSIS_RESULTS_CACHE[u]]
            /\ Goto(t, "complete_file")
            /\ UNCHANGED loc
       ELSE /\ Goto(t, "finally")
            /\ loc' = [loc EXCEPT ![t] = NoLocals]
            /\ UNCHANGED <<TASKS, ANALYSIS_RESULTS_CACHE>>
    /\ resp' = NoResp
    /\ UNCHANGED <<LAST_COMPLETED_TASK, TASK_THREADS, TASK_STOP_EVENTS,
                   ranking_json, stop_event, stage_invoked, xvars, rvars, cvars>>

\* A completion step whose failure to write ranking.json is not caught and
\* leaves run_analysis_task as an exception.
Complete_File_Raises(t) ==
    /\ pc[t] = "complete_file"
    /\ \E o \in Outcomes :
         IF o = "ok"
         THEN /\ ranking_json' = {FullResult(t, loc[t].count)}
              /\ Goto(t, "complete_last")
              /\ UNCHANGED loc
         ELSE /\ Raise(t, "cannot write ranking.json")
              /\ UNCHANGED ranking_json
    /\ resp' = NoResp
    /\ UNCHANGED <<TASKS, LAST_COMPLETED_TASK, TASK_THREADS, TASK_STOP_EVENTS,
                   ANALYSIS_RESULTS_CACHE, stop_event, stage_invoked, xvars, rvars, cvars>>

\* Lines 416-422: ranking.json is overwritten; a failure to write is logged
\* and swallowed.
Complete_File(t) ==
    /\ pc[t] = "complete_file"
    /\ \E o \in Outcomes :
         ranking_json' = IF o = "ok" THEN {FullResult(t, loc[t].count)}
                         ELSE ranking_json
    /\ Goto(t, "complete_last")
    /\ resp' = NoResp
    /\ UNCHANGED <<TASKS, LAST_COMPLETED_TASK, TASK_THREADS, TASK_STOP_EVENTS,
                   ANALYSIS_RESULTS_CACHE, stop_event, loc, stage_invoked, xvars, rvars, cvars>>

\* Line 424: set_last_completed_task(task).
Complete_Last(t) ==
    /\ pc[t] = "complete_last"
    /\ LAST_COMPLETED_TASK' = {t}
    /\ Goto(t, "finally")
    /\ loc' = [loc EXCEPT ![t] = NoLocals]
    /\ resp' = NoResp
    /\ UNCHANGED <<TASKS, TASK_THREADS, TASK_STOP_EVENTS, ANALYSIS_RESULTS_CACHE,
                   ranking_json, stop_event, stage_invoked, xvars, rvars, cvars>>

\* ------------------------------------------- run_analysis_wrapper
\* Lines 129-132: an exception of run_analysis_task is handed to
\* handle_task_error.
Except(t) ==
    /\ pc[t] = "except"
    /\ TASKS' = handle_task_error(TASKS, t, loc[t].error_text)
    /\ Goto(t, "finally")
    /\ UNCHANGED <<loc, stage_invoked>>
    /\ ExecFrame

\* A finally block that forgets the stop-event registry.
Finally_KeepsStopEvent(t) ==
    /\ pc[t] = "finally"
    /\ TASK_THREADS' = TASK_THREADS \ {t}
    /\ Goto(t, "ended")
    /\ UNCHANGED stage_invoked
    /\ resp' = NoResp
    /\ UNCHANGED <<TASKS, LAST_COMPLETED_TASK, TASK_STOP_EVENTS,
                   ANALYSIS_RESULTS_CACHE, ranking_json, stop_event, loc, xvars, rvars, cvars>>

\* Lines 133-139: the finally block removes the thread and the stop event
\* from the registries; the thread then ends.
Finally(t) ==
    /\ pc[t] = "finally"
    /\ TASK_THREADS' = TASK_THREADS \ {t}
    /\ TASK_STOP_EVENTS' = TASK_STOP_EVENTS \ {t}
    /\ Goto(t, "ended")
    /\ UNCHANGED stage_invoked
    /\ resp' = NoResp
    /\ UNCHANGED <<TASKS, LAST_COMPLETED_TASK, ANALYSIS_RESULTS_CACHE, ranking_json,
                   stop_event, loc, xvars, rvars, cvars>>

\* One step of the executor thread of job t.
Executor(t) ==
    \/ Setup_Start(t) \/ Setup_Fetch(t) \/ CheckPoint(t)
    \/ Spot_Fetch(t) \/ Spot_Save(t) \/ Upsert_Check(t) \/ Upsert_Apply(t)
    \/ Db_Select(t)
    \/ Hist_Begin(t) \/ Hist_Skip(t) \/ Hist_Next(t) \/ Hist_Item(t) \/ Hist_End(t)
    \/ Hist_Done(t) \/ Backfill(t)
    \/ Weekly_Run(t) \/ Monthly_Run(t) \/ Weekly_Skip(t)
    \/ Factors_Load(t) \/ Factors_85(t) \/ Compute_Factors_Begin(t)
    \/ Compute_Factors_End(t) \/ Factors_Clean(t) \/ Factors_Sectors(t)
    \/ Complete_Mark(t) \/ Complete_File(t) \/ Complete_Last(t)
    \/ Except(t) \/ Finally(t)

NextAnalysis ==
    \/ \E t \in TaskIds, c \in BOOLEAN : create_analysis_task(t, c)
    \/ \E t \in TaskIds : stop_analysis(t)
    \/ \E t \in TaskIds : Executor(t)

InitAnalysis ==
    /\ TASKS = << >>
    /\ LAST_COMPLETED_TASK = {}
    /\ TASK_THREADS = {}
    /\ TASK_STOP_EVENTS = {}
    /\ ANALYSIS_RESULTS_CACHE = << >>
    /\ ranking_json = {}
    /\ stop_event = [t \in JobIds |-> FALSE]
    /\ pc = [t \in JobIds |-> "idle"]
    /\ loc = [t \in JobIds |-> NoLocals]
    /\ stage_invoked = [t \in JobIds |-> FALSE]
    /\ resp = NoResp

InitExtended ==
    /\ EXT_TASKS = << >>
    /\ EXTENDED_ANALYSIS_THREADS = {}
    /\ EXTENDED_ANALYSIS_STOP_EVENTS = {}
    /\ x_stop_event = [x \in XIds |-> FALSE]
    /\ x_pc = [x \in XIds |-> "idle"]
    /\ x_res = [x \in XIds |-> None]
    /\ result_holder = << >>
    /\ req = [r \in ReqIds |-> [pc |-> "idle", task_id |-> 0, response |-> None,
                                 events |-> << >>]]

\* The directory that holds the backend package, and the directories the
\* server process can be started in.
BackendDir == "backend"
WorkingDirs == {BackendDir, "elsewhere"}

\* No action of the two job families reads the working directory, so it
\* is fixed where only they run.
InitResults ==
    /\ EXTENDED_ANALYSIS_CACHE = {}
    /\ cwd = BackendDir
    /\ standalone_calls = {}

\* Locals of collect_concepts_task: total is total_concepts_count of the
\* page, i the number of boards visited, processed the processed_concepts
\* counter of collect_concept_data, total_concepts the number of boards
\* saved and total_stocks the number of their constituent stocks.
NoConceptLocals ==
    [clear_db |-> FALSE, total |-> 0, i |-> 0, processed |-> 0,
     total_concepts |-> 0, total_stocks |-> 0, error_text |-> None]

\* len(concept_stock_entries) of board k of the page.
StocksOf(k) == k

InitConcept ==
    /\ CONCEPT_TASKS = << >>
    /\ LAST_COMPLETED_CONCEPT_TASK = {}
    /\ c_pc = [c \in ConceptIds |-> "idle"]
    /\ c_loc = [c \in ConceptIds |-> NoConceptLocals]
    /\ concept_info = [k \in 1..MaxBoards |-> 0]

Init == InitAnalysis /\ InitExtended /\ InitResults /\ InitConcept

\* The analysis family alone.
SpecAnalysis == Init /\ [][NextAnalysis]_vars

\* The analysis family with every started executor thread scheduled until
\* it ends: the threads are daemon threads of a running process and no
\* step of run_analysis_wrapper waits for another thread.
SpecAnalysisLive ==
    Init /\ [][NextAnalysis]_vars /\ \A t \in TaskIds : WF_vars(Executor(t))

\* Analysis jobs side by side: one job more than SpecAnalysis submits, each
\* with its own thread, and stop requests for any of them.
NextConcurrent ==
    \/ \E t \in JobIds, c \in BOOLEAN : create_analysis_task(t, c)
    \/ \E t \in JobIds : stop_analysis(t)
    \/ \E t \in JobIds : Executor(t)

SpecConcurrent == Init /\ [][NextConcurrent]_vars

\* =================================================== extended analysis
\* --------------------------- task tracking of the extended analysis
\* The tracking functions imported by api.py (add_, update_, complete_,
\* get_running_extended_analysis_task) keep one record per job id.
X_RUNNING == "running"
X_STOPPING == "stopping"
X_COMPLETED == "completed"
X_FAILED == "failed"
XTerminal == {X_COMPLETED, X_FAILED}

\* add_extended_analysis_task(task_id, status, message)
add_extended_analysis_task(X, x, status, message) ==
    X @@ (x :> [task_id |-> x, status |-> status, message |-> message,
                result |-> None, error |-> None, completed_at |-> FALSE])

\* update_extended_analysis_task(task_id, status=None, message=None): only
\* the given fields change; an unknown id changes nothing.
update_extended_analysis_task(X, x, status, message) ==
    IF x \in DOMAIN X
    THEN [X EXCEPT ![x].status = IF status = None THEN @ ELSE status,
                   ![x].message = IF message = None THEN @ ELSE message]
    ELSE X

\* complete_extended_analysis_task(task_id, result=None, error=None): the
\* record is finalized, failed when an error is given.
complete_extended_analysis_task(X, x, result, error) ==
    IF x \in DOMAIN X
    THEN [X EXCEPT ![x].status = IF error = None THEN X_COMPLETED ELSE X_FAILED,
                   ![x].result = result, ![x].error = error,
                   ![x].completed_at = TRUE]
    ELSE X

\* get_running_extended_analysis_task(): the ids of the records that are
\* not in a terminal state; the function returns one of them, or None.
running_extended_analysis_tasks(X) ==
    {x \in DOMAIN X : X[x].status \notin XTerminal}

\* ------------------------------------ run_extended_analysis_stream
ReqFrame ==
    /\ resp' = NoResp
    /\ UNCHANGED <<avars, rvars, cvars>>

\* An admission check that admits every submission.
X_Check_AlwaysAdmits(r) ==
    /\ req[r].pc = "idle"
    /\ req' = [req EXCEPT ![r].pc = "admitted"]
    /\ UNCHANGED <<EXT_TASKS, EXTENDED_ANALYSIS_THREADS,
                   EXTENDED_ANALYSIS_STOP_EVENTS, x_stop_event, x_pc, x_res,
                   result_holder>>
    /\ ReqFrame

\* Lines 386-390: the admission check.  With a running task the handler
\* returns an error that carries the running task's id.
X_Check(r) ==
    /\ req[r].pc = "idle"
    /\ LET running == running_extended_analysis_tasks(EXT_TASKS)
       IN  IF running # {}
           THEN \E x \in running :
                  req' = [req EXCEPT ![r] =
                            [pc |-> "done", task_id |-> 0,
                             response |-> [kind |-> "error_already_running",
                                           task_id |-> x],
                             events |-> << >>]]
           ELSE req' = [req EXCEPT ![r].pc = "admitted"]
    /\ UNCHANGED <<EXT_TASKS, EXTENDED_ANALYSIS_THREADS,
                   EXTENDED_ANALYSIS_STOP_EVENTS, x_stop_event, x_pc, x_res,
                   result_holder>>
    /\ ReqFrame

NewHolder(x) ==
    [done |-> FALSE, result |-> None, error |-> None, last_msg |-> None,
     task_id |-> x]

\* Lines 392-401 and 449-473: a new id, the result holder, the tracked
\* task, the stop event and the thread are created and registered, the
\* thread is started and the event stream is returned.
X_Create(r) ==
    /\ req[r].pc = "admitted"
    /\ \E x \in XIds :
         /\ x \notin DOMAIN EXT_TASKS
         /\ x_pc[x] = "idle"
         /\ \A y \in XIds : y < x => x_pc[y] # "idle"
         /\ result_holder' = result_holder @@ (x :> NewHolder(x))
         /\ EXT_TASKS' = add_extended_analysis_task(EXT_TASKS, x, X_RUNNING,
                                                    "extended analysis started")
         /\ x_stop_event' = [x_stop_event EXCEPT ![x] = FALSE]
         /\ EXTENDED_ANALYSIS_STOP_EVENTS' = EXTENDED_ANALYSIS_STOP_EVENTS \cup {x}
         /\ EXTENDED_ANALYSIS_THREADS' = EXTENDED_ANALYSIS_THREADS \cup {x}
         /\ x_pc' = [x_pc EXCEPT ![x] = "call"]
         /\ req' = [req EXCEPT ![r] =
                      [pc |-> "done", task_id |-> x,
                       response |-> [kind |-> "stream", task_id |-> x],
                       events |-> << >>]]
    /\ UNCHANGED x_res
    /\ ReqFrame

\* ------------------------------------------------------------ worker
\* The outcomes of the call at line 410.  The worker passes stop_event=,
\* a keyword run_standalone_extended_analysis (extended_analysis.py, line
\* 256) does not accept, so the call raises TypeError before the analysis
\* starts.
AnalysisCallOutcomes == {"TypeError"}

\* Line 410.
W_Call(x) ==
    /\ x_pc[x] = "call"
    /\ \E o \in AnalysisCallOutcomes : x_res' = [x_res EXCEPT ![x] = o]
    /\ x_pc' = [x_pc EXCEPT ![x] = "finish"]
    /\ UNCHANGED <<EXT_TASKS, EXTENDED_ANALYSIS_THREADS,
                   EXTENDED_ANALYSIS_STOP_EVENTS, x_stop_event, result_holder, req>>
    /\ ReqFrame

\* The error the worker stores, lines 412-434, or None when it stores a
\* result.
WorkerError(res, stopped) ==
    CASE res = "TypeError"  -> "unexpected keyword argument stop_event"
      [] res = "error_dict" -> IF stopped THEN "task cancelled" ELSE "analysis error"
      [] OTHER              -> IF stopped THEN "task cancelled" ELSE None

\* Lines 412-434: the tracked task is completed with the result or with
\* the error, and the same goes into the result holder.
W_Finish(x) ==
    /\ x_pc[x] = "finish"
    /\ LET e == WorkerError(x_res[x], x_stop_event[x])
           r == IF e = None THEN "result" ELSE None
       IN  /\ EXT_TASKS' = complete_extended_analysis_task(EXT_TASKS, x, r, e)
           /\ result_holder' = [result_holder EXCEPT ![x].result = r, ![x].error = e]
    /\ x_pc' = [x_pc EXCEPT ![x] = "finally"]
    /\ UNCHANGED <<EXTENDED_ANALYSIS_THREADS, EXTENDED_ANALYSIS_STOP_EVENTS,
                   x_stop_event, x_res, req>>
    /\ ReqFrame

\* Lines 435-439: done is set and both registry entries are removed.
W_Finally(x) ==
    /\ x_pc[x] = "finally"
    /\ result_holder' = [result_holder EXCEPT ![x].done = TRUE]
    /\ EXTENDED_ANALYSIS_THREADS' = EXTENDED_ANALYSIS_THREADS \ {x}
    /\ EXTENDED_ANALYSIS_STOP_EVENTS' = EXTENDED_ANALYSIS_STOP_EVENTS \ {x}
    /\ x_pc' = [x_pc EXCEPT ![x] = "ended"]
    /\ UNCHANGED <<EXT_TASKS, x_stop_event, x_res, req>>
    /\ ReqFrame

\* event_stream, lines 463-471: the event that ends the stream once the
\* worker has set done.
terminal_event(holder) ==
    IF holder.error # None THEN "error" ELSE "complete"

\* ------------------------------------------------------ event_stream
\* The generator behind the StreamingResponse of submission r; it exists
\* when the handler returned a stream (the submission has a job id), and
\* it has returned once it has emitted a terminal event.
TerminalEvents == {"complete", "error"}

StreamOpen(r) ==
    /\ req[r].pc = "done"
    /\ req[r].task_id \in XIds
    /\ \A k \in 1..Len(req[r].events) : req[r].events[k] \notin TerminalEvents

\* What a step of the generator leaves alone besides the cache.
StreamFrame ==
    /\ resp' = NoResp
    /\ UNCHANGED <<avars, cwd, standalone_calls, cvars, EXT_TASKS, EXTENDED_ANALYSIS_THREADS,
                   EXTENDED_ANALYSIS_STOP_EVENTS, x_stop_event, x_pc, x_res,
                   result_holder>>

\* Line 454: the start event.
Stream_Start(r) ==
    /\ StreamOpen(r)
    /\ req[r].events = << >>
    /\ req' = [req EXCEPT ![r].events = <<"start">>]
    /\ UNCHANGED EXTENDED_ANALYSIS_CACHE
    /\ StreamFrame

\* A loop that emits a progress event without reading done.
Stream_Progress_IgnoresDone(r) ==
    /\ StreamOpen(r)
    /\ req[r].events # << >>
    /\ Len(req[r].events) <= MaxTicks
    /\ req' = [req EXCEPT ![r].events = Append(@, "progress")]
    /\ UNCHANGED EXTENDED_ANALYSIS_CACHE
    /\ StreamFrame

\* Lines 457-461: done is not set, a progress event is emitted.
Stream_Progress(r) ==
    /\ StreamOpen(r)
    /\ req[r].events # << >>
    /\ ~result_holder[req[r].task_id].done
    /\ Len(req[r].events) <= MaxTicks
    /\ req' = [req EXCEPT ![r].events = Append(@, "progress")]
    /\ UNCHANGED EXTENDED_ANALYSIS_CACHE
    /\ StreamFrame

\* Lines 457 and 463-471: done is set; the error event, or the result is
\* cached and the complete event is emitted.  The generator returns.
Stream_End(r) ==
    /\ StreamOpen(r)
    /\ req[r].events # << >>
    /\ result_holder[req[r].task_id].done
    /\ LET e == terminal_event(result_holder[req[r].task_id])
       IN  /\ req' = [req EXCEPT ![r].events = Append(@, e)]
           /\ EXTENDED_ANALYSIS_CACHE' =
                  IF e = "complete" THEN {[from_cache |-> FALSE]}
                  ELSE EXTENDED_ANALYSIS_CACHE
    /\ StreamFrame

\* stop_extended_analysis: 404 when no stop event is registered; otherwise
\* the event is set and the tracked task is marked "stopping".
stop_extended_analysis(x) ==
    /\ UNCHANGED <<avars, EXTENDED_ANALYSIS_THREADS, EXTENDED_ANALYSIS_STOP_EVENTS,
                   x_pc, x_res, result_holder, req, rvars, cvars>>
    /\ IF x \notin EXTENDED_ANALYSIS_STOP_EVENTS
       THEN /\ resp' = [op |-> "stop_extended_analysis", id |-> x, code |-> "http_404"]
            /\ UNCHANGED <<EXT_TASKS, x_stop_event>>
       ELSE /\ x_stop_event' = [x_stop_event EXCEPT ![x] = TRUE]
            /\ EXT_TASKS' = update_extended_analysis_task(EXT_TASKS, x, X_STOPPING,
                                "stop requested, cleaning up")
            /\ resp' = [op |-> "stop_extended_analysis", id |-> x, code |-> "ok"]

NextExtended ==
    \/ \E r \in ReqIds : X_Check(r) \/ X_Create(r)
    \/ \E x \in XIds : W_Call(x) \/ W_Finish(x) \/ W_Finally(x)
    \/ \E x \in XIds : stop_extended_analysis(x)

\* The extended-analysis family alone.
SpecExtended == Init /\ [][NextExtended]_vars

\* One step of the generator of submission r.
EventStream(r) == Stream_Start(r) \/ Stream_Progress(r) \/ Stream_End(r)

\* One step of the worker thread of job x.
Worker(x) == W_Call(x) \/ W_Finish(x) \/ W_Finally(x)

NextStream ==
    \/ NextExtended
    \/ \E r \in ReqIds : EventStream(r)

\* The extended-analysis family with the clients reading their streams.
SpecStream == Init /\ [][NextStream]_vars

\* The same, with every worker thread scheduled until it ends and every
\* stream read to its end: the server pulls the generator of a
\* StreamingResponse for as long as the client stays connected.
SpecStreamLive ==
    /\ Init /\ [][NextStream]_vars
    /\ \A x \in XIds : WF_vars(Worker(x))
    /\ \A r \in ReqIds : WF_vars(EventStream(r))

\* The two families share no variable but resp, the answer of the last
\* stop request, which no action reads: a step of one family neither
\* enables nor disables a step of the other nor changes what it writes.
\* A property that is a conjunction of one statement per family is
\* therefore checked on the behaviours in which one family runs while the
\* other has not been started.
ExtendedUntouched ==
    /\ EXT_TASKS = << >>
    /\ \A r \in ReqIds : req[r].pc = "idle"

AnalysisUntouched == TASKS = << >>

NextFamilies ==
    \/ NextAnalysis /\ ExtendedUntouched
    \/ NextExtended /\ AnalysisUntouched

SpecFamilies == Init /\ [][NextFamilies]_vars

Next == NextAnalysis \/ NextExtended

\* Both families.
Spec == Init /\ [][Next]_vars

\* ================================================== concept collection
\* update_concept_task_progress: a no-op for an id that is not in
\* CONCEPT_TASKS.
update_concept_task_progress(T, c, p, m) ==
    IF c \in DOMAIN T
    THEN [T EXCEPT ![c].progress = p, ![c].message = m]
    ELSE T

\* handle_concept_task_error: the record is marked FAILED with the error text.
handle_concept_task_error(T, c, e) ==
    [T EXCEPT ![c].status = FAILED, ![c].error = e,
              ![c].message = "concept collection failed: " \o e,
              ![c].completed_at = TRUE]

\* The ConceptTask that create_concept_collection_task builds.
NewConceptTask(c, clear_db) ==
    [task_id |-> c, status |-> PENDING, progress |-> 0,
     message |-> IF clear_db THEN "created, waiting to start (old data will be cleared)"
                 ELSE "created, waiting to start",
     completed_at |-> FALSE, result |-> {}, error |-> None]

\* What a step of the concept family leaves alone.
ConceptFrame ==
    /\ resp' = NoResp
    /\ UNCHANGED <<avars, xvars, rvars>>

ConceptGoto(c, label) == c_pc' = [c_pc EXCEPT ![c] = label]

\* create_concept_collection_task: the record is stored and the thread is
\* started; the family has no stop event and no thread registry.
create_concept_collection_task(c, clear_db) ==
    /\ c \notin DOMAIN CONCEPT_TASKS
    /\ c_pc[c] = "idle"
    /\ \A u \in ConceptIds : u < c => c_pc[u] # "idle"
    /\ CONCEPT_TASKS' = CONCEPT_TASKS @@ (c :> NewConceptTask(c, clear_db))
    /\ ConceptGoto(c, "start")
    /\ c_loc' = [c_loc EXCEPT ![c] = [NoConceptLocals EXCEPT !.clear_db = clear_db]]
    /\ UNCHANGED <<LAST_COMPLETED_CONCEPT_TASK, concept_info>>
    /\ ConceptFrame

\* collect_concepts_task, lines 54-61: RUNNING, progress 0.0.
Con_Start(c) ==
    /\ c_pc[c] = "start"
    /\ IF c \in DOMAIN CONCEPT_TASKS
       THEN /\ CONCEPT_TASKS' = update_concept_task_progress(
                    [CONCEPT_TASKS EXCEPT ![c].status = RUNNING], c, P(0),
                    IF c_loc[c].clear_db
                    THEN "collection started (old data cleared)"
                    ELSE "collection started")
            /\ ConceptGoto(c, IF c_loc[c].clear_db THEN "clear" ELSE "collect_begin")
            /\ UNCHANGED c_loc
       ELSE /\ ConceptGoto(c, "ended")
            /\ c_loc' = [c_loc EXCEPT ![c] = NoConceptLocals]
            /\ UNCHANGED CONCEPT_TASKS
    /\ UNCHANGED <<LAST_COMPLETED_CONCEPT_TASK, concept_info>>
    /\ ConceptFrame

\* An exception on its way to handle_concept_task_error.
ConceptRaise(c, e) ==
    /\ ConceptGoto(c, "except")
    /\ c_loc' = [c_loc EXCEPT ![c] = [NoConceptLocals EXCEPT !.error_text = e]]

\* Lines 64-71: progress 0.05 and the concept tables are cleared.
Con_Clear(c) ==
    /\ c_pc[c] = "clear"
    /\ CONCEPT_TASKS' = update_concept_task_progress(CONCEPT_TASKS, c, P(5),
                            "clearing old data")
    /\ \E o \in Outcomes :
         IF o = "ok"
         THEN /\ ConceptGoto(c, "collect_begin")
              /\ concept_info' = [k \in 1..MaxBoards |-> 0]
              /\ UNCHANGED c_loc
         ELSE /\ ConceptRaise(c, "cannot clear concept tables")
              /\ UNCHANGED concept_info
    /\ UNCHANGED LAST_COMPLETED_CONCEPT_TASK
    /\ ConceptFrame

\* Lines 78-82 and 171-173, collect_concept_data up to line 499: progress
\* 0.1, the browser is started and the page lists total boards; the start
\* of the browser can raise.
Con_Collect_Begin(c) ==
    /\ c_pc[c] = "collect_begin"
    /\ CONCEPT_TASKS' = update_concept_task_progress(CONCEPT_TASKS, c, P(10),
                            "collecting concept boards")
    /\ \E o \in Outcomes, total \in 0..MaxBoards :
         IF o = "ok"
         THEN /\ c_loc' = [c_loc EXCEPT ![c].total = total]
              /\ ConceptGoto(c, "collect")
         ELSE /\ total = 0
              /\ ConceptRaise(c, "cannot start the browser")
    /\ UNCHANGED <<LAST_COMPLETED_CONCEPT_TASK, concept_info>>
    /\ ConceptFrame

\* The progress save_single_concept reports, lines 162-168:
\* min(0.1 + 0.8 * processed_count / max(total_count, 1), 0.95).
ConceptProgress(processed_count, total_count) ==
    LET concept_total_estimate == IF total_count > 1 THEN total_count ELSE 1
        progress == P(10) + (P(80) * processed_count) \div concept_total_estimate
    IN  IF progress < P(95) THEN progress ELSE P(95)

\* What can happen to one board: it is saved, its save is rolled back, it
\* has no stocks and is skipped, or the crawl fails and collect_concept_data
\* returns what it has.
BoardOutcomes == {"saved", "rollback", "no_stocks", "crawl_error"}

\* The loop with a callback that counts a board before its commit.
Con_Board_CountsFailedSave(c) ==
    /\ c_pc[c] = "collect"
    /\ c_loc[c].i < c_loc[c].total
    /\ \E o \in BoardOutcomes :
         CASE o = "saved" ->
                /\ c_loc' = [c_loc EXCEPT ![c].i = @ + 1, ![c].processed = @ + 1,
                                          ![c].total_concepts = @ + 1,
                                          ![c].total_stocks = @ + StocksOf(c_loc[c].i + 1)]
                /\ concept_info' = [concept_info EXCEPT ![c_loc[c].i + 1] = c]
                /\ CONCEPT_TASKS' = update_concept_task_progress(CONCEPT_TASKS, c,
                       ConceptProgress(c_loc[c].processed + 1, c_loc[c].total),
                       "saved concept boards")
                /\ UNCHANGED c_pc
           [] o = "rollback" ->
                /\ c_loc' = [c_loc EXCEPT ![c].i = @ + 1, ![c].processed = @ + 1,
                                          ![c].total_concepts = @ + 1,
                                          ![c].total_stocks = @ + StocksOf(c_loc[c].i + 1)]
                /\ UNCHANGED <<CONCEPT_TASKS, c_pc, concept_info>>
           [] o = "no_stocks" ->
                /\ c_loc' = [c_loc EXCEPT ![c].i = @ + 1]
                /\ UNCHANGED <<CONCEPT_TASKS, c_pc, concept_info>>
           [] o = "crawl_error" ->
                /\ ConceptGoto(c, "complete")
                /\ UNCHANGED <<CONCEPT_TASKS, c_loc, concept_info>>
    /\ UNCHANGED LAST_COMPLETED_CONCEPT_TASK
    /\ ConceptFrame

\* One board of the loop of collect_concept_data with the callback
\* save_single_concept, lines 89-168.  A failed save is rolled back and
\* reports nothing.
Con_Board(c) ==
    /\ c_pc[c] = "collect"
    /\ c_loc[c].i < c_loc[c].total
    /\ \E o \in BoardOutcomes :
         CASE o = "saved" ->
                /\ c_loc' = [c_loc EXCEPT ![c].i = @ + 1, ![c].processed = @ + 1,
                                          ![c].total_concepts = @ + 1,
                                          ![c].total_stocks = @ + StocksOf(c_loc[c].i + 1)]
                /\ concept_info' = [concept_info EXCEPT ![c_loc[c].i + 1] = c]
                /\ CONCEPT_TASKS' = update_concept_task_progress(CONCEPT_TASKS, c,
                       ConceptProgress(c_loc[c].processed + 1, c_loc[c].total),
                       "saved concept boards")
                /\ UNCHANGED c_pc
           [] o = "rollback" ->
                /\ c_loc' = [c_loc EXCEPT ![c].i = @ + 1, ![c].processed = @ + 1]
                /\ UNCHANGED <<CONCEPT_TASKS, c_pc, concept_info>>
           [] o = "no_stocks" ->
                /\ c_loc' = [c_loc EXCEPT ![c].i = @ + 1]
                /\ UNCHANGED <<CONCEPT_TASKS, c_pc, concept_info>>
           [] o = "crawl_error" ->
                /\ ConceptGoto(c, "complete")
                /\ UNCHANGED <<CONCEPT_TASKS, c_loc, concept_info>>
    /\ UNCHANGED LAST_COMPLETED_CONCEPT_TASK
    /\ ConceptFrame

\* Lines 178-190: collect_concept_data has returned; the task is COMPLETED
\* with progress 1.0 and its counts, and becomes the last completed one.
\* The thread ends.
Con_Complete(c) ==
    /\ \/ c_pc[c] = "complete"
       \/ c_pc[c] = "collect" /\ c_loc[c].i = c_loc[c].total
    /\ CONCEPT_TASKS' = [CONCEPT_TASKS EXCEPT
                           ![c].status = COMPLETED,
                           ![c].progress = P(100),
                           ![c].message = "collection completed",
                           ![c].completed_at = TRUE,
                           ![c].result = {[concepts_count |-> c_loc[c].total_concepts,
                                           stocks_count |-> c_loc[c].total_stocks]}]
    /\ LAST_COMPLETED_CONCEPT_TASK' = {c}
    /\ UNCHANGED concept_info
    /\ ConceptGoto(c, "ended")
    /\ c_loc' = [c_loc EXCEPT ![c] = NoConceptLocals]
    /\ ConceptFrame

\* Lines 68-71 and 195-197: the exception is handed to
\* handle_concept_task_error and the thread ends.
Con_Except(c) ==
    /\ c_pc[c] = "except"
    /\ CONCEPT_TASKS' = handle_concept_task_error(CONCEPT_TASKS, c, c_loc[c].error_text)
    /\ ConceptGoto(c, "ended")
    /\ UNCHANGED <<c_loc, LAST_COMPLETED_CONCEPT_TASK, concept_info>>
    /\ ConceptFrame

NextConcept ==
    \/ \E c \in ConceptIds, clear_db \in BOOLEAN : create_concept_collection_task(c, clear_db)
    \/ \E c \in ConceptIds :
         \/ Con_Start(c) \/ Con_Clear(c) \/ Con_Collect_Begin(c)
         \/ Con_Board(c) \/ Con_Complete(c) \/ Con_Except(c)

\* The concept-collection family alone.
SpecConcept == Init /\ [][NextConcept]_vars

\* ============================================ progress updates by any id
\* update_task_progress and update_concept_task_progress take the id as an
\* argument; here they are called with any id, registered or not, and any
\* progress and message, on registries filled by the two submission
\* functions.
AnyTaskIds == TaskIds \cup {0}
AnyProgress == {P(0), P(50), P(100)}
AnyMessages == {"", "working"}

\* update_task_progress(task_id, progress, message) returns None.
Call_update_task_progress(id, p, m) ==
    /\ TASKS' = update_task_progress(TASKS, id, p, m)
    /\ resp' = [op |-> "update_task_progress", id |-> id, code |-> "returned"]
    /\ UNCHANGED <<LAST_COMPLETED_TASK, TASK_THREADS, TASK_STOP_EVENTS,
                   ANALYSIS_RESULTS_CACHE, ranking_json, stop_event, pc, loc,
                   stage_invoked, xvars, rvars, cvars>>

\* update_concept_task_progress(task_id, progress, message) returns None.
Call_update_concept_task_progress(id, p, m) ==
    /\ CONCEPT_TASKS' = update_concept_task_progress(CONCEPT_TASKS, id, p, m)
    /\ resp' = [op |-> "update_concept_task_progress", id |-> id, code |-> "returned"]
    /\ UNCHANGED <<avars, xvars, rvars, LAST_COMPLETED_CONCEPT_TASK, c_pc, c_loc, concept_info>>

NextProgress ==
    \/ \E t \in TaskIds, c \in BOOLEAN : create_analysis_task(t, c)
    \/ \E c \in ConceptIds, clear_db \in BOOLEAN : create_concept_collection_task(c, clear_db)
    \/ \E id \in AnyTaskIds, p \in AnyProgress, m \in AnyMessages :
         \/ Call_update_task_progress(id, p, m)
         \/ Call_update_concept_task_progress(id, p, m)

\* The two progress functions under arbitrary calls.
SpecProgress == Init /\ [][NextProgress]_vars

\* ===================================== the decision to upsert the spot rows
\* check_and_upsert_spot_data called on any content of the daily table:
\* latest_data_count and previous_data_count are the numbers of rows of
\* the two dates (the table also holds codes that are not selected), n is
\* len(stock_codes) and codes_with_data the selected codes that have rows.
RowCounts == 0..(MaxStocks + 1)

\* check_and_upsert_spot_data(task_id, stock_codes, spot, latest_trade_date),
\* lines 77-131: progress 0.18, the decision, progress 0.2 with the
\* message of the branch taken; the decision is returned.
Call_check_and_upsert_spot_data(t, latest_data_count, previous_data_count, n, codes_with_data) ==
    LET decision == should_upsert_spot(latest_data_count, previous_data_count, n)
    IN  /\ TASKS' = update_task_progress(
                        update_task_progress(TASKS, t, P(18),
                            "check whether to upsert spot data"),
                        t, P(20),
                        IF decision THEN "save spot data as daily K"
                        ELSE "skip spot upsert, fetch_history will get the data")
        /\ resp' = [op |-> "check_and_upsert_spot_data",
                    id |-> [task_id |-> t,
                            latest_data_count |-> latest_data_count,
                            previous_data_count |-> previous_data_count,
                            n |-> n, codes_with_data |-> codes_with_data],
                    code |-> decision]
        /\ UNCHANGED <<LAST_COMPLETED_TASK, TASK_THREADS, TASK_STOP_EVENTS,
                       ANALYSIS_RESULTS_CACHE, ranking_json, stop_event, pc, loc,
                       stage_invoked, xvars, rvars, cvars>>

NextUpsertDecision ==
    \/ \E t \in TaskIds, c \in BOOLEAN : create_analysis_task(t, c)
    \/ \E t \in AnyTaskIds, latest \in RowCounts, previous \in RowCounts,
          n \in 0..MaxStocks :
         \E codes \in SUBSET (1..n) :
            Call_check_and_upsert_spot_data(t, latest, previous, n, codes)

\* The decision function under arbitrary inputs.
SpecUpsertDecision == Init /\ [][NextUpsertDecision]_vars

\* ==================================================== serving of results
\* get_task_status: 404 for an id that is not in TASKS, otherwise the
\* status of the record.
get_task_status(t) ==
    IF t \in DOMAIN TASKS THEN TASKS[t].status ELSE "http_404"

\* ranking.json as get_latest_results opens it (api.py, line 190): the name
\* is relative to the working directory of the process, while
\* complete_analysis_task writes <backend>/ranking.json (line 417).  Nothing
\* in the program writes a ranking.json in another directory.
ReaderFile(dir, written) == IF dir = BackendDir THEN written ELSE {}

\* get_latest_results: the last completed task if the pointer is set,
\* otherwise the content of ranking.json if the file exists, otherwise a
\* message.  The handler changes nothing; this is its answer.  A
\* TaskResult has no from_cache field: the mark set at line 197 on the
\* loaded dict is not among the fields copied into the TaskResult, so
\* from_cache, the set of values the answer carries for it, is empty.
get_latest_results ==
    IF LAST_COMPLETED_TASK # {}
    THEN LET t == CHOOSE u \in LAST_COMPLETED_TASK : TRUE
         IN  [source |-> "memory", task_id |-> t, status |-> TASKS[t].status,
              count |-> {r.count : r \in TASKS[t].result}, from_cache |-> {}]
    ELSE LET file == ReaderFile(cwd, ranking_json)
         IN  IF file # {}
             THEN LET c == CHOOSE d \in file : TRUE
                  IN  [source |-> "file", task_id |-> c.task_id,
                       status |-> COMPLETED, count |-> {c.count},
                       from_cache |-> {}]
             ELSE [source |-> "message", task_id |-> 0, status |-> None,
                   count |-> {}, from_cache |-> {}]

\* get_extended_analysis_results, lines 353-356 and 373: a copy of the
\* cache marked from_cache, or a message.  extended_analysis_results.json
\* is written by nothing in the program and is taken to be absent.
get_extended_analysis_results ==
    IF EXTENDED_ANALYSIS_CACHE # {}
    THEN [source |-> "memory", from_cache |-> TRUE]
    ELSE [source |-> "message", from_cache |-> FALSE]

\* What a handler of this section leaves alone.
ResultsFrame ==
    /\ resp' = NoResp
    /\ UNCHANGED <<avars, xvars, cwd, standalone_calls, cvars>>

\* The answers of run_standalone_extended_analysis(): a result, or a dict
\* with the key "error" (the function catches its own exceptions).
StandaloneOutcomes == {"result", "error_dict"}

\* run_extended_analysis (synchronous endpoint and scheduled run): a fresh
\* result is computed and, unless it is an error, cached.
run_extended_analysis ==
    /\ \E o \in StandaloneOutcomes :
         EXTENDED_ANALYSIS_CACHE' =
            IF o = "result" THEN {[from_cache |-> FALSE]}
            ELSE EXTENDED_ANALYSIS_CACHE
    /\ ResultsFrame

\* The callers of run_extended_analysis(): the route of main.py and the
\* daily job of scheduler.py.  Neither consults EXT_TASKS or any lock.
StandaloneCallers == {"run_endpoint", "daily_scheduled_analysis"}

\* Line 340, entered: the caller is inside run_standalone_extended_analysis().
run_extended_analysis_Begin(who) ==
    /\ who \notin standalone_calls
    /\ standalone_calls' = standalone_calls \cup {who}
    /\ resp' = NoResp
    /\ UNCHANGED <<avars, xvars, EXTENDED_ANALYSIS_CACHE, cwd, cvars>>

\* Lines 340-344: the call returns and a result without "error" is cached.
run_extended_analysis_End(who) ==
    /\ who \in standalone_calls
    /\ standalone_calls' = standalone_calls \ {who}
    /\ \E o \in StandaloneOutcomes :
         EXTENDED_ANALYSIS_CACHE' =
            IF o = "result" THEN {[from_cache |-> FALSE]}
            ELSE EXTENDED_ANALYSIS_CACHE
    /\ resp' = NoResp
    /\ UNCHANGED <<avars, xvars, cwd, cvars>>

NextExclusive ==
    \/ NextExtended
    \/ \E who \in StandaloneCallers :
          run_extended_analysis_Begin(who) \/ run_extended_analysis_End(who)

\* Every way of starting an extended analysis: the streaming submissions
\* and their workers, the synchronous route and the scheduled daily run.
SpecExclusive == Init /\ [][NextExclusive]_vars

\* clear_extended_analysis_cache_endpoint (main.py): the only caller of
\* clear_extended_analysis_cache.
clear_extended_analysis_cache_endpoint ==
    /\ EXTENDED_ANALYSIS_CACHE' = {}
    /\ ResultsFrame

\* The process is stopped and started again: every module-level dictionary
\* is empty, every thread is gone, the files stay, and the new process has
\* its own working directory.  Job ids are not used twice.
Restart ==
    /\ TASKS' = << >>
    /\ LAST_COMPLETED_TASK' = {}
    /\ TASK_THREADS' = {}
    /\ TASK_STOP_EVENTS' = {}
    /\ ANALYSIS_RESULTS_CACHE' = << >>
    /\ stop_event' = [t \in JobIds |-> FALSE]
    /\ pc' = [t \in JobIds |-> IF pc[t] = "idle" THEN "idle" ELSE "lost"]
    /\ loc' = [t \in JobIds |-> NoLocals]
    /\ stage_invoked' = [t \in JobIds |-> FALSE]
    /\ resp' = NoResp
    /\ EXT_TASKS' = << >>
    /\ EXTENDED_ANALYSIS_THREADS' = {}
    /\ EXTENDED_ANALYSIS_STOP_EVENTS' = {}
    /\ x_stop_event' = [x \in XIds |-> FALSE]
    /\ x_pc' = [x \in XIds |-> IF x_pc[x] = "idle" THEN "idle" ELSE "lost"]
    /\ x_res' = [x \in XIds |-> None]
    /\ result_holder' = << >>
    /\ req' = [r \in ReqIds |->
                 IF req[r].pc = "idle" THEN req[r]
                 ELSE [pc |-> "lost", task_id |-> 0, response |-> None,
                       events |-> << >>]]
    /\ EXTENDED_ANALYSIS_CACHE' = {}
    /\ cwd' \in WorkingDirs
    /\ standalone_calls' = {}
    /\ CONCEPT_TASKS' = << >>
    /\ LAST_COMPLETED_CONCEPT_TASK' = {}
    /\ c_pc' = [c \in ConceptIds |-> IF c_pc[c] = "idle" THEN "idle" ELSE "lost"]
    /\ c_loc' = [c \in ConceptIds |-> NoConceptLocals]
    /\ UNCHANGED <<ranking_json, concept_info>>

NextResults ==
    \/ NextAnalysis
    \/ run_extended_analysis
    \/ clear_extended_analysis_cache_endpoint
    \/ Restart

\* The first process too can be started in any directory.
InitAnywhere ==
    /\ InitAnalysis
    /\ InitExtended
    /\ EXTENDED_ANALYSIS_CACHE = {}
    /\ cwd \in WorkingDirs
    /\ standalone_calls = {}
    /\ InitConcept

\* The analysis family with the handlers that serve results, across
\* restarts of the process.
SpecResults == InitAnywhere /\ [][NextResults]_vars

\* ============================================================== claims
\* run_analysis_task of job t returns (to the finally block of the wrapper).
Returns(t) ==
    /\ pc[t] \notin {"idle", "except", "finally", "ended"}
    /\ pc'[t] = "finally"
\* run_analysis_task of job t is left by an exception.
Raises(t) ==
    /\ pc[t] \notin {"idle", "except", "finally", "ended"}
    /\ pc'[t] = "except"

StatusStepOK(a, b) ==
    \/ a = b
    \/ a = PENDING /\ b = RUNNING
    \/ a = RUNNING /\ b \in Terminal

\* C1: the status of every analysis job moves only PENDING -> RUNNING ->
\* COMPLETED / FAILED / CANCELLED; a terminal status never changes again.
C1_StatusOneDirectional ==
    [][\A t \in DOMAIN TASKS :
          StatusStepOK(TASKS[t].status, TASKS'[t].status)]_vars

\* C2: the progress values written to a job's record never decrease.
C2_ProgressNonDecreasing ==
    [][\A t \in DOMAIN TASKS : TASKS'[t].progress >= TASKS[t].progress]_vars

\* C3: when the stop event is set after the history batch began and
\* before it visited its last item, the
\* stage stops at the next item boundary, and when run_analysis_task then
\* returns the job is CANCELLED with completed_at set.
C3_CancelMidBatch ==
    [][\A t \in TaskIds :
          /\ (pc[t] = "hist_loop" /\ loc[t].i < loc[t].n /\ stop_event[t]
              /\ pc'[t] # pc[t])
                => pc'[t] = "chk_hist"
          /\ (Returns(t) /\ loc[t].hist_return = "stopped"
              /\ ~loc[t].token_at_batch)
                => /\ TASKS'[t].status = CANCELLED
                   /\ TASKS'[t].completed_at]_vars

\* C4: when the history batch ran over n >= 1 items and none succeeded,
\* the job is FAILED when run_analysis_task returns.
C4_AllItemsFailed ==
    [][\A t \in TaskIds :
          (Returns(t) /\ loc[t].hist_return = "no_success" /\ loc[t].n >= 1)
             => TASKS'[t].status = FAILED]_vars

\* C5: every item of the history batch, failing or not, is counted and
\* followed by the next one; with at least one success and no stop request
\* the loop visits all n items, successes + failures = n, the stage does
\* not report an error, the job goes on to the next stage, and unless a
\* later stage raises it returns COMPLETED with progress 1.0.
C5_PartialFailureTolerated ==
    [][\A t \in TaskIds :
          /\ pc[t] \in {"hist_loop", "hist_item"}
                => loc[t].successful_count + loc[t].failed_count = loc[t].i
          /\ (pc[t] = "hist_item" /\ pc'[t] # pc[t])
                => /\ pc'[t] = "hist_loop"
                   /\ loc'[t].i = loc[t].i + 1
                   /\ loc'[t].i <= loc[t].n
          /\ (pc[t] = "hist_loop" /\ pc'[t] = "chk_hist" /\ ~stop_event[t]
              /\ loc[t].successful_count >= 1)
                => /\ loc[t].i = loc[t].n
                   /\ loc[t].successful_count + loc[t].failed_count = loc[t].n
                   /\ ~loc'[t].has_error
                   /\ loc'[t].hist_return \in {"all_saved", "some_failed"}
          /\ (pc[t] = "chk_hist" /\ pc'[t] # pc[t] /\ ~stop_event[t]
              /\ loc[t].hist_return \in {"all_saved", "some_failed"})
                => pc'[t] = "hist_done"
          /\ (Returns(t) /\ ~stop_event[t]
              /\ loc[t].hist_return \in {"all_saved", "some_failed"})
                => /\ pc[t] = "complete_last"
                   /\ TASKS'[t].status = COMPLETED
                   /\ TASKS'[t].progress = P(100)]_vars

\* A job is about to return COMPLETED with progress 1.0 after a batch in
\* which some items failed and some succeeded.
C5_Witness ==
    \E t \in DOMAIN TASKS :
        /\ pc[t] = "complete_last"
        /\ loc[t].hist_return = "some_failed"
        /\ ~stop_event[t]
        /\ TASKS[t].status = COMPLETED
        /\ TASKS[t].progress = P(100)

\* C6: when the stop event was set before the executor ran its first
\* statement, run_analysis_task is left with the job CANCELLED, progress
\* 0.0 and no external collaborator invoked.
C6_CancelBeforeStart ==
    [][\A t \in TaskIds :
          ((Returns(t) \/ Raises(t)) /\ loc[t].token_at_start)
             => /\ TASKS'[t].status = CANCELLED
                /\ TASKS'[t].progress = P(0)
                /\ ~stage_invoked'[t]]_vars

\* C7: a streaming submission whose admission check runs while an extended
\* job is active creates no record, no stop event and no thread, and its
\* response carries the id of an active job.
C7_ActiveJobBlocksSubmission ==
    [][\A r \in ReqIds :
          (/\ req[r].pc = "idle"
           /\ req'[r].pc # "idle"
           /\ running_extended_analysis_tasks(EXT_TASKS) # {})
            => /\ UNCHANGED <<EXT_TASKS, EXTENDED_ANALYSIS_THREADS,
                              EXTENDED_ANALYSIS_STOP_EVENTS, x_stop_event,
                              x_pc, result_holder>>
               /\ req'[r].pc = "done"
               /\ req'[r].response.kind = "error_already_running"
               /\ req'[r].response.task_id
                    \in running_extended_analysis_tasks(EXT_TASKS)]_vars

\* A submission was turned away while the job it names was still active.
C7_Witness ==
    \E r \in ReqIds :
        /\ req[r].pc = "done"
        /\ req[r].response.kind = "error_already_running"
        /\ req[r].response.task_id \in running_extended_analysis_tasks(EXT_TASKS)
        /\ Cardinality(DOMAIN EXT_TASKS) = 1

\* C8: the admission check and the creation are atomic: a submission
\* creates its job only in a state in which no extended job is active.
C8_CheckThenCreateAtomic ==
    [][\A r \in ReqIds :
          (req[r].pc = "admitted" /\ req'[r].pc = "done")
            => running_extended_analysis_tasks(EXT_TASKS) = {}]_vars

\* C9: in both families a job whose executor thread has ended has no entry
\* in the thread registry and none in the stop-event registry.
C9_RegistriesCleared ==
    /\ \A t \in TaskIds :
          pc[t] = "ended" => t \notin TASK_THREADS /\ t \notin TASK_STOP_EVENTS
    /\ \A x \in XIds :
          x_pc[x] = "ended" => /\ x \notin EXTENDED_ANALYSIS_THREADS
                               /\ x \notin EXTENDED_ANALYSIS_STOP_EVENTS

\* An analysis job ended through the exception path of its wrapper.
C9_Witness ==
    \E t \in DOMAIN TASKS :
        /\ pc[t] = "ended"
        /\ TASKS[t].status = FAILED
        /\ TASKS[t].error # None

\* A stop request, of either family, for an id without a registered stop
\* event.
StopWithoutToken ==
    \/ resp'.op = "stop_analysis" /\ resp'.id \notin TASK_STOP_EVENTS
    \/ resp'.op = "stop_extended_analysis"
         /\ resp'.id \notin EXTENDED_ANALYSIS_STOP_EVENTS

\* C10 as stated: a stop request for an id without a registered stop event
\* is answered with accepted=false, not with an error, and changes no
\* record, stop event or registry.
C10_StopWithoutTokenNotAccepted ==
    [][StopWithoutToken
         => /\ resp'.code = "accepted_false"
            /\ UNCHANGED <<avars, xvars>>]_vars

\* C10 amended: a stop request for an id without a registered stop event
\* is answered with an HTTP error - 404 when the analysis record or the
\* extended stop event is unknown, 400 when the analysis record exists but
\* its stop event is gone - and changes no record, stop event or registry.
C10_StopWithoutTokenIsHttpError ==
    [][StopWithoutToken
         => /\ resp'.code \in HttpErrors
            /\ resp'.code = "http_400"
                 <=> (resp'.op = "stop_analysis" /\ resp'.id \in DOMAIN TASKS)
            /\ UNCHANGED <<avars, xvars>>]_vars

\* A stop request reached an analysis job whose thread had ended.
C10_Witness ==
    /\ resp.op = "stop_analysis"
    /\ resp.code = "http_400"
    /\ pc[resp.id] = "ended"
    /\ resp.id \notin TASK_STOP_EVENTS

\* C11: from the step in which an analysis job's status becomes COMPLETED
\* the last-completed pointer is that job, and the pointer moves only in a
\* step in which the job it moves to becomes COMPLETED.
C11_LastCompletedFollowsStatus ==
    [][/\ \A t \in DOMAIN TASKS :
            (TASKS[t].status # COMPLETED /\ TASKS'[t].status = COMPLETED)
              => LAST_COMPLETED_TASK' = {t}
       /\ LAST_COMPLETED_TASK' # LAST_COMPLETED_TASK
            => \E t \in DOMAIN TASKS :
                  /\ LAST_COMPLETED_TASK' = {t}
                  /\ TASKS[t].status # COMPLETED
                  /\ TASKS'[t].status = COMPLETED]_vars

\* A restart that ends a process in which an analysis job had been started.
RestartStep ==
    \E t \in TaskIds : pc[t] \notin {"idle", "lost"} /\ pc'[t] = "lost"

\* C12: after a restart of a process that had persisted a result,
\* get_latest_results answers from the file with the task_id and the count
\* that the completion step wrote.
C12_RestartRoundTrip ==
    [][(RestartStep /\ ranking_json # {})
         => LET c == CHOOSE d \in ranking_json : TRUE
            IN  /\ get_latest_results'.source = "file"
                /\ get_latest_results'.task_id = c.task_id
                /\ get_latest_results'.count = {c.count}]_vars

\* C14: a step in which an analysis job becomes COMPLETED leaves the
\* extended-analysis cache empty, so that the next read of the extended
\* results is not served from it.
C14_CompletionClearsExtendedCache ==
    [][\A t \in DOMAIN TASKS \cap DOMAIN TASKS' :
          (TASKS[t].status # COMPLETED /\ TASKS'[t].status = COMPLETED)
            => /\ EXTENDED_ANALYSIS_CACHE' = {}
               /\ get_extended_analysis_results'.source # "memory"]_vars

\* C13: a completion step that fails to write ranking.json changes neither
\* the job's record (its status stays COMPLETED, its result stays set) nor
\* its cache entry and raises nothing; the step after it points the
\* last-completed pointer at the job and the executor returns normally.
C13_FileFailureKeepsCompletion ==
    [][\A t \in TaskIds :
          /\ (/\ pc[t] = "complete_file"
              /\ pc'[t] # "complete_file"
              /\ ranking_json' # {FullResult(t, loc[t].count)})
               => /\ pc'[t] = "complete_last"
                  /\ TASKS' = TASKS
                  /\ TASKS[t].result = {[count |-> loc[t].count]}
                  /\ TASKS[t].status = COMPLETED => TASKS'[t].status = COMPLETED
                  /\ ANALYSIS_RESULTS_CACHE' = ANALYSIS_RESULTS_CACHE
                  /\ t \in DOMAIN ANALYSIS_RESULTS_CACHE
                  /\ ANALYSIS_RESULTS_CACHE[t] = FullResult(t, loc[t].count)
          /\ (pc[t] = "complete_last" /\ pc'[t] # "complete_last")
               => /\ pc'[t] = "finally"
                  /\ LAST_COMPLETED_TASK' = {t}
                  /\ TASKS' = TASKS
                  /\ ANALYSIS_RESULTS_CACHE' = ANALYSIS_RESULTS_CACHE]_vars

\* A job finished as COMPLETED although its ranking.json was never written.
C13_Witness ==
    \E t \in DOMAIN TASKS :
        /\ pc[t] = "ended"
        /\ ranking_json = {}
        /\ TASKS[t].status = COMPLETED
        /\ TASKS[t].result # {}
        /\ t \in DOMAIN ANALYSIS_RESULTS_CACHE
        /\ LAST_COMPLETED_TASK = {t}

\* C15: a FAILED analysis job has a non-empty error and a non-empty message.
C15_FailedHasErrorAndMessage ==
    \A t \in DOMAIN TASKS :
        TASKS[t].status = FAILED
          => /\ TASKS[t].error \notin {None, ""}
             /\ TASKS[t].message # ""

\* The step in which job t becomes CANCELLED.
BecomesCancelled(t) ==
    TASKS[t].status # CANCELLED /\ TASKS'[t].status = CANCELLED

\* C16: the step in which an analysis job becomes CANCELLED leaves its
\* progress as it was, and the job has neither an error nor a result.
C16_CancelKeepsProgress ==
    [][\A t \in DOMAIN TASKS :
          BecomesCancelled(t)
            => /\ TASKS'[t].progress = TASKS[t].progress
               /\ TASKS'[t].error = None
               /\ TASKS'[t].result = {}]_vars

\* A job was cancelled after the history stage had reported 0.4.
C16_Witness ==
    \E t \in DOMAIN TASKS :
        /\ TASKS[t].status = CANCELLED
        /\ TASKS[t].progress = P(40)
        /\ TASKS[t].error = None
        /\ TASKS[t].result = {}

\* An accepted stop request for job t.
StopAccepted(t) ==
    resp'.op = "stop_analysis" /\ resp'.id = t /\ resp'.code = "ok"

C18_ExtendedCancelIsNotAnError ==
    [][\A x \in DOMAIN EXT_TASKS :
          (x_pc[x] = "finish" /\ x_pc'[x] = "finally" /\ x_stop_event[x])
            => /\ result_holder'[x].error = None
               /\ terminal_event(result_holder'[x]) # "error"]_vars

\* C19: in every state a job's progress equals 1.0 exactly when its
\* status is COMPLETED.
C19_FullProgressIffCompleted ==
    \A t \in DOMAIN TASKS :
        TASKS[t].progress = P(100) <=> TASKS[t].status = COMPLETED

\* C20: result and error are never both set; a result is present only on a
\* COMPLETED job, an error only on a FAILED job, and a PENDING or RUNNING
\* job has neither.
C20_ResultAndErrorFollowStatus ==
    \A t \in DOMAIN TASKS :
        /\ ~(TASKS[t].result # {} /\ TASKS[t].error # None)
        /\ TASKS[t].result # {} => TASKS[t].status = COMPLETED
        /\ TASKS[t].error # None => TASKS[t].status = FAILED
        /\ TASKS[t].status \in {PENDING, RUNNING}
             => TASKS[t].result = {} /\ TASKS[t].error = None

\* C21: in every state completed_at is unset while a job's status is
\* PENDING or RUNNING and set when the status is COMPLETED, FAILED or
\* CANCELLED.
C21_CompletedAtIffTerminal ==
    \A t \in DOMAIN TASKS :
        TASKS[t].completed_at <=> TASKS[t].status \in Terminal

\* C22: the step that starts the executor thread of a job has stored the
\* job's PENDING record and registered its stop event (unset) and its
\* thread, and answers with status PENDING; from then on get_task_status
\* finds the id; and the executor's first step finds the record and the
\* registered stop event.
C22_RegisteredBeforeStart ==
    [][\A t \in TaskIds :
          /\ (pc[t] = "idle" /\ pc'[t] # "idle")
               => /\ pc'[t] = "start"
                  /\ get_task_status(t)' = PENDING
                  /\ t \in TASK_STOP_EVENTS'
                  /\ ~stop_event'[t]
                  /\ t \in TASK_THREADS'
                  /\ resp' = RunResponse(t)
          /\ pc[t] # "idle" => get_task_status(t) # "http_404"
          /\ (pc[t] = "start" /\ pc'[t] # "start")
               => /\ t \in DOMAIN TASKS
                  /\ t \in TASK_STOP_EVENTS
                  /\ pc'[t] = "setup_fetch"]_vars

\* The submission has just answered and the thread has not run yet.
C22_Witness ==
    /\ resp.op = "run_analysis"
    /\ pc[resp.id] = "start"
    /\ get_task_status(resp.id) = PENDING
    /\ resp.id \in TASK_STOP_EVENTS \cap TASK_THREADS

\* The executor thread of analysis job t ends after run_analysis_wrapper
\* caught an exception of run_analysis_task.
EndsAfterException(t) ==
    /\ pc[t] = "finally"
    /\ pc'[t] = "ended"
    /\ loc[t].error_text # None

\* The concept thread of job c ends after an exception was caught.
ConceptEndsAfterException(c) ==
    /\ c_pc[c] = "except"
    /\ c_pc'[c] = "ended"

\* C23: when the thread of a job ends after a stage raised an exception,
\* the job is FAILED with the exception's text as error and completed_at
\* set, and (analysis family) its thread and stop-event registry entries
\* are gone.
C23_StageExceptionEndsFailed ==
    [][/\ \A t \in TaskIds :
            EndsAfterException(t)
              => /\ TASKS'[t].status = FAILED
                 /\ TASKS'[t].error = loc[t].error_text
                 /\ TASKS'[t].completed_at
                 /\ t \notin TASK_THREADS'
                 /\ t \notin TASK_STOP_EVENTS'
       /\ \A c \in ConceptIds :
            ConceptEndsAfterException(c)
              => /\ CONCEPT_TASKS'[c].status = FAILED
                 /\ CONCEPT_TASKS'[c].error = c_loc[c].error_text
                 /\ CONCEPT_TASKS'[c].completed_at]_vars

\* The messages of the skip branches of fetch_and_save_historical_data
\* (lines 246-253) and calculate_weekly_monthly_data (lines 282-289).
SkipMessages ==
    {"skip external API (spot data upserted)",
     "use database history (skip external API)",
     "skip weekly and monthly K (only spot upserted)",
     "use existing data, skip weekly and monthly K"}

\* A step in which job t passes over a stage without running it: the
\* history batch, the backfill (run_analysis_task, line 498) or the weekly
\* and monthly computation.
StageSkipped(t) ==
    \/ pc[t] = "hist" /\ pc'[t] = "chk_hist"
    \/ pc[t] = "chk_40" /\ pc'[t] = "weekly"
    \/ pc[t] = "weekly" /\ pc'[t] = "chk_weekly"

\* C24: a step that skips a stage of the analysis pipeline writes a message
\* that names the skip and does not lower progress.
C24_SkipIsReported ==
    [][\A t \in DOMAIN TASKS :
          StageSkipped(t)
            => /\ TASKS'[t].message \in SkipMessages
               /\ TASKS'[t].progress >= TASKS[t].progress]_vars

\* The positions of complete_analysis_task.
Completing == {"complete", "complete_file", "complete_last"}

\* C25: a job becomes COMPLETED only in the first step of
\* complete_analysis_task, which is entered only from the cancellation
\* check that follows the last stage and only when that check found the
\* stop event unset; a stop event that is set stays set, so a job whose
\* stop event was set before the last stage ended does not enter
\* complete_analysis_task and does not become COMPLETED.
C25_NoCompletionAfterCancel ==
    [][\A t \in DOMAIN TASKS :
          /\ (TASKS[t].status # COMPLETED /\ TASKS'[t].status = COMPLETED)
               => pc[t] = "complete"
          /\ (pc[t] # "complete" /\ pc'[t] = "complete")
               => pc[t] = "chk_factors" /\ ~stop_event[t]
          /\ (pc[t] # "chk_factors" /\ pc'[t] = "chk_factors")
               => pc[t] \in {"factors_clean", "factors_sectors"}
          /\ stop_event[t] => stop_event'[t]
          /\ (stop_event[t] /\ pc[t] \notin Completing /\ TASKS[t].status # COMPLETED)
               => /\ pc'[t] \notin Completing
                  /\ TASKS'[t].status # COMPLETED]_vars

\* The last stage has run to its end for a job whose stop event is set;
\* the job is not COMPLETED.
C25_Witness ==
    \E t \in DOMAIN TASKS :
        /\ pc[t] = "chk_factors"
        /\ stop_event[t]
        /\ TASKS[t].progress \in {P(95), P(97)}
        /\ TASKS[t].status # COMPLETED

\* C26: the setup step reports an error exactly when it has marked the job
\* FAILED (with completed_at); with the error reported run_analysis_task
\* returns at once, leaving the record as it is, and from there the thread
\* only runs the wrapper's cleanup and ends: no stage runs.
C26_SetupFailureRunsNoStage ==
    [][\A t \in DOMAIN TASKS :
          /\ (pc[t] = "setup_fetch" /\ pc'[t] # "setup_fetch")
               => /\ pc'[t] = "chk_setup"
                  /\ loc'[t].has_error <=> TASKS'[t].status = FAILED
                  /\ loc'[t].has_error => TASKS'[t].completed_at
          /\ (pc[t] = "chk_setup" /\ loc[t].has_error /\ pc'[t] # "chk_setup")
               => pc'[t] = "finally" /\ TASKS' = TASKS
          /\ pc[t] = "finally" => pc'[t] \in {"finally", "ended"}
          /\ pc[t] = "ended" => pc'[t] = "ended"]_vars

\* The thread of a job whose trade-date fetch failed has ended: the job is
\* FAILED at progress 0.02.
C26_Witness ==
    \E t \in DOMAIN TASKS :
        /\ pc[t] = "ended"
        /\ TASKS[t].status = FAILED
        /\ TASKS[t].message = "cannot get latest trade date"
        /\ TASKS[t].progress = P(2)
        /\ TASKS[t].completed_at

\* C27: a call of update_task_progress or update_concept_task_progress
\* with an id that is not in its registry returns normally and changes
\* neither registry nor anything else.
C27_UnknownIdIsNoOp ==
    [][/\ (resp'.op = "update_task_progress" /\ resp'.id \notin DOMAIN TASKS)
            => /\ resp'.code = "returned"
               /\ UNCHANGED <<avars, xvars, rvars, cvars>>
       /\ (resp'.op = "update_concept_task_progress"
           /\ resp'.id \notin DOMAIN CONCEPT_TASKS)
            => /\ resp'.code = "returned"
               /\ UNCHANGED <<avars, xvars, rvars, cvars>>]_vars

\* update_task_progress has just been called with an unknown id on a
\* registry that holds a record.
C27_Witness ==
    /\ resp.op = "update_task_progress"
    /\ resp.id \notin DOMAIN TASKS
    /\ DOMAIN TASKS # {}
    /\ DOMAIN CONCEPT_TASKS # {}

\* C28: a stop request of either family leaves the thread registries and
\* the stop-event registries as they are and never clears a stop event; an
\* entry leaves a registry only in the cleanup step of the job's own
\* thread.
C28_StopKeepsRegistries ==
    [][/\ resp'.op \in {"stop_analysis", "stop_extended_analysis"}
            => /\ UNCHANGED <<TASK_THREADS, TASK_STOP_EVENTS,
                              EXTENDED_ANALYSIS_THREADS,
                              EXTENDED_ANALYSIS_STOP_EVENTS>>
               /\ \A t \in TaskIds : stop_event[t] => stop_event'[t]
               /\ \A x \in XIds : x_stop_event[x] => x_stop_event'[x]
       /\ \A t \in (TASK_THREADS \ TASK_THREADS')
                     \cup (TASK_STOP_EVENTS \ TASK_STOP_EVENTS') :
            pc[t] = "finally" /\ pc'[t] = "ended"
       /\ \A x \in (EXTENDED_ANALYSIS_THREADS \ EXTENDED_ANALYSIS_THREADS')
                     \cup (EXTENDED_ANALYSIS_STOP_EVENTS \ EXTENDED_ANALYSIS_STOP_EVENTS') :
            x_pc[x] = "finally" /\ x_pc'[x] = "ended"]_vars

\* A stop request was accepted for an analysis job that is still
\* registered in both registries.
C28_Witness ==
    /\ resp.op = "stop_analysis"
    /\ resp.code = "ok"
    /\ stop_event[resp.id]
    /\ resp.id \in TASK_THREADS \cap TASK_STOP_EVENTS

\* C29: an answer that serves a result carries from_cache = true exactly
\* when the result was loaded from the result file, for the analysis
\* results and for the extended-analysis results.
C29_FromCacheMeansFile ==
    /\ get_latest_results.source # "message"
         => (get_latest_results.from_cache = {TRUE}
               <=> get_latest_results.source = "file")
    /\ get_extended_analysis_results.source # "message"
         => (get_extended_analysis_results.from_cache
               <=> get_extended_analysis_results.source = "file")

\* The last step accepted a stop request for job t while its thread was
\* inside the history batch with at least one item still to visit: the job
\* is running and its stop event is set.
StoppedInBatch(t) ==
    /\ resp.op = "stop_analysis"
    /\ resp.id = t
    /\ resp.code = "ok"
    /\ \/ pc[t] = "hist_loop" /\ loc[t].i < loc[t].n
       \/ pc[t] = "hist_item" /\ loc[t].i + 1 < loc[t].n
    /\ stop_event[t]

\* C30: a stop request accepted for a running analysis job sets the job's
\* stop event, and the job then becomes CANCELLED.
C30_StopEndsCancelled ==
    \A t \in TaskIds :
        StoppedInBatch(t) ~> (t \in DOMAIN TASKS /\ TASKS[t].status = CANCELLED)

\* What the program keeps for job u alone (its record, its stop event, its
\* entries in the two registries) differs between the two states of a step.
JobChanged(u) ==
    \/ ~((u \in DOMAIN TASKS) <=> (u \in DOMAIN TASKS'))
    \/ u \in DOMAIN TASKS /\ u \in DOMAIN TASKS' /\ TASKS'[u] # TASKS[u]
    \/ stop_event'[u] # stop_event[u]
    \/ ~((u \in TASK_THREADS) <=> (u \in TASK_THREADS'))
    \/ ~((u \in TASK_STOP_EVENTS) <=> (u \in TASK_STOP_EVENTS'))

\* The step is one of job u: a statement of its thread (its submission
\* included), or a stop request addressed to it.
JobActs(u) ==
    \/ pc'[u] # pc[u]
    \/ resp'.op = "stop_analysis" /\ resp'.id = u

\* C31: every step is a step of at most one analysis job, and it changes
\* the record, the stop event and the registry entries of no other job.
C31_JobsIndependent ==
    [][/\ \A u \in JobIds : JobChanged(u) => JobActs(u)
       /\ \A t, u \in JobIds : (JobActs(t) /\ JobActs(u)) => t = u
       /\ \A u \in JobIds : ~JobActs(u) => pc'[u] = pc[u] /\ loc'[u] = loc[u]]_vars

\* One job has failed, been stopped and cleaned up while another one,
\* untouched, is in the middle of its history batch.
C31_Witness ==
    \E t, u \in DOMAIN TASKS :
        /\ t # u
        /\ pc[t] = "ended" /\ TASKS[t].error # None /\ stop_event[t]
        /\ t \notin TASK_THREADS \cup TASK_STOP_EVENTS
        /\ pc[u] = "hist_item" /\ TASKS[u].status = RUNNING /\ ~stop_event[u]
        /\ TASKS[u].progress = ItemProgress(loc[u].i, loc[u].n)
        /\ u \in TASK_THREADS \cap TASK_STOP_EVENTS

\* C32: an analysis job whose thread has ended, so that its entries in the
\* thread registry and in the stop-event registry are gone, is COMPLETED,
\* FAILED or CANCELLED.
C32_EndedJobIsTerminal ==
    \A t \in DOMAIN TASKS :
        (pc[t] = "ended" /\ t \notin TASK_THREADS \cup TASK_STOP_EVENTS)
            => TASKS[t].status \in Terminal

\* The positions inside the loop of fetch_and_save_historical_data.
BatchPositions == {"hist_loop", "hist_item"}

\* C33: in the history batch an item is fetched only after a boundary
\* check that found the stop event unset, and a check that finds it set
\* ends the loop for good; every fetch moves on to the next index, so no
\* item is processed twice; and the number of codes whose rows were
\* committed never falls, in particular not when the stop is observed.
C33_StopAtItemBoundary ==
    [][\A t \in TaskIds :
          /\ (pc'[t] = "hist_item" /\ pc[t] # "hist_item")
                => /\ pc[t] = "hist_loop" /\ ~stop_event[t]
                   /\ loc'[t].i = loc[t].i /\ loc[t].i < loc[t].n
          /\ (pc[t] = "hist_loop" /\ loc[t].i < loc[t].n /\ stop_event[t]
              /\ pc'[t] # pc[t])
                => /\ pc'[t] = "chk_hist"
                   /\ loc'[t].hist_return = "stopped"
                   /\ loc'[t].successful_count = loc[t].successful_count
          /\ (pc'[t] \in BatchPositions /\ pc[t] \notin BatchPositions)
                => pc[t] = "hist"
          /\ (pc'[t] = "hist" /\ pc[t] # "hist")
                => pc[t] \in {"chk_upsert", "chk_db"}
          /\ (pc[t] = "hist_item" /\ pc'[t] # pc[t])
                => /\ pc'[t] = "hist_loop"
                   /\ loc'[t].i = loc[t].i + 1
                   /\ loc'[t].successful_count \in
                         {loc[t].successful_count, loc[t].successful_count + 1}
          /\ (pc[t] \in BatchPositions /\ pc'[t] \in BatchPositions)
                => loc'[t].successful_count >= loc[t].successful_count]_vars

\* The batch was stopped at an item boundary with one code saved and
\* another one not yet visited.
C33_Witness ==
    \E t \in DOMAIN TASKS :
        /\ pc[t] = "chk_hist"
        /\ loc[t].hist_return = "stopped"
        /\ loc[t].successful_count >= 1
        /\ stop_event[t]

\* C34: the progress written before item i of a batch of n items satisfies
\* n * progress = n * 0.25 + 0.10 * i, whatever the earlier items did, and
\* so lies in [0.25, 0.35); the update that closes the loop writes 0.35.
C34_ItemProgressLinear ==
    [][\A t \in DOMAIN TASKS :
          /\ (pc[t] = "hist_loop" /\ pc'[t] = "hist_item")
                => /\ loc[t].n * TASKS'[t].progress
                         = loc[t].n * P(25) + P(10) * loc[t].i
                   /\ TASKS'[t].progress >= P(25)
                   /\ TASKS'[t].progress < P(35)
          /\ (pc[t] = "hist_loop" /\ pc'[t] = "chk_hist"
              /\ loc[t].i = loc[t].n)
                => TASKS'[t].progress = P(35)]_vars

\* The progress of the second item has been written after the first item
\* failed.
C34_Witness ==
    \E t \in DOMAIN TASKS :
        /\ pc[t] = "hist_item"
        /\ loc[t].i >= 1
        /\ loc[t].failed_count >= 1
        /\ TASKS[t].progress > P(25)
        /\ TASKS[t].progress < P(35)

\* The positions from the return of check_and_upsert_spot_data to the
\* entry of calculate_weekly_monthly_data.
DecisionInForce ==
    {"chk_upsert", "hist", "hist_loop", "hist_item", "chk_hist", "hist_done",
     "chk_40", "backfill", "chk_backfill"}

\* C35: the history batch is entered exactly when collect_latest_data is
\* true and the upsert stage reported no upsert; both values reach the
\* weekly stage unchanged; and the weekly stage computes the weekly and
\* monthly K-lines exactly when the history batch ran.
C35_WeeklyFollowsHistory ==
    [][\A t \in DOMAIN TASKS :
          /\ (pc[t] = "hist" /\ pc'[t] # pc[t])
                => (pc'[t] = "hist_loop" <=> (loc[t].collect /\ ~loc[t].upsert))
          /\ (pc[t] \in DecisionInForce /\ pc'[t] \notin {"finally", "except"})
                => /\ loc'[t].upsert = loc[t].upsert
                   /\ loc'[t].collect = loc[t].collect
          /\ (pc[t] = "weekly" /\ pc'[t] # pc[t])
                => /\ TASKS'[t].progress \in {P(50), P(60)}
                   /\ TASKS'[t].progress = P(50)
                         <=> loc[t].hist_return \in {"all_saved", "some_failed"}
                   /\ TASKS'[t].progress = P(60)
                         <=> loc[t].hist_return = "skipped"
                   /\ TASKS'[t].progress = P(50)
                         <=> (loc[t].collect /\ ~loc[t].upsert)]_vars

\* The weekly K-lines have been computed in a job whose history batch ran.
C35_Witness ==
    \E t \in DOMAIN TASKS :
        /\ pc[t] = "monthly"
        /\ loc[t].hist_return \in {"all_saved", "some_failed"}
        /\ loc[t].collect /\ ~loc[t].upsert
        /\ TASKS[t].progress = P(50)

\* C36: for at least one selected code, check_and_upsert_spot_data decides
\* to upsert exactly when the latest trade date has rows, the previous
\* trading day has rows, and every selected code has daily data.
C36_UpsertDecision ==
    (resp.op = "check_and_upsert_spot_data" /\ resp.id.n >= 1)
        => (resp.code
              <=> /\ resp.id.latest_data_count > 0
                  /\ resp.id.previous_data_count > 0
                  /\ resp.id.codes_with_data = 1..resp.id.n)

\* The events of a stream so far: start first and only first, a terminal
\* event last and only last, progress events in between.
WellFormedEvents(ev) ==
    \A k \in 1..Len(ev) :
        /\ (ev[k] = "start") <=> (k = 1)
        /\ ev[k] \in TerminalEvents => k = Len(ev)
        /\ ev[k] \in {"start", "progress"} \cup TerminalEvents

StreamClosed(r) ==
    /\ req[r].events # << >>
    /\ req[r].events[Len(req[r].events)] \in TerminalEvents

CompletedJobs == {t \in DOMAIN TASKS : TASKS[t].status = COMPLETED}

AllJobsEnded == \A t \in DOMAIN TASKS : pc[t] = "ended"

\* C38: once several jobs have completed and every job has ended,
\* ranking.json holds the result of the job LAST_COMPLETED_TASK points to.
C38_FileMatchesPointer ==
    (AllJobsEnded /\ Cardinality(CompletedJobs) >= 2)
        => \E t \in CompletedJobs :
               /\ LAST_COMPLETED_TASK = {t}
               /\ \E c \in 0..MaxStocks : ranking_json = {FullResult(t, c)}

\* The extended-analysis computations in progress: the streaming workers
\* inside their analysis call, and the callers inside run_extended_analysis().
ActiveComputations ==
    Cardinality({x \in XIds : x_pc[x] = "call"}) + Cardinality(standalone_calls)

\* C39: at most one extended-analysis computation is active at any time,
\* whether it was started by a streaming submission, by the synchronous
\* run endpoint or by the scheduled daily run.
C39_OneComputationAtATime == ActiveComputations <= 1

\* C40: when save_single_concept is called for a board and its rows are
\* not committed, the tables are left as they were, the counters of the
\* job do not move, and the job stays in its loop, running, with the next
\* board to visit; when the rows are committed the counters grow by one
\* concept and by its constituent stocks; and the result of a job that
\* completes carries these two counters.
C40_FailedSaveRolledBack ==
    [][\A c \in ConceptIds :
          LET k == c_loc[c].i + 1
              before == c_loc[c]
              after == c_loc'[c]
          IN  /\ (c_pc[c] = "collect" /\ after.processed = before.processed + 1)
                   => IF concept_info'[k] = c
                      THEN /\ after.total_concepts = before.total_concepts + 1
                           /\ after.total_stocks = before.total_stocks + StocksOf(k)
                      ELSE /\ concept_info' = concept_info
                           /\ after.total_concepts = before.total_concepts
                           /\ after.total_stocks = before.total_stocks
                           /\ c_pc'[c] = "collect"
                           /\ after.i = k
                           /\ CONCEPT_TASKS'[c].status = RUNNING
              /\ (c_pc[c] \in {"collect", "complete"} /\ c_pc'[c] = "ended"
                    /\ CONCEPT_TASKS'[c].status = COMPLETED)
                   => CONCEPT_TASKS'[c].result =
                        {[concepts_count |-> before.total_concepts,
                          stocks_count |-> before.total_stocks]}]_vars

\* The save of board 1 was rolled back and the job went on to save
\* board 2: one concept and its two stocks are counted.
C40_Witness ==
    \E c \in ConceptIds :
        /\ c_pc[c] = "collect"
        /\ c_loc[c].processed = 2 /\ c_loc[c].i = 2
        /\ concept_info[1] # c /\ concept_info[2] = c
        /\ c_loc[c].total_concepts = 1 /\ c_loc[c].total_stocks = StocksOf(2)

====
